---- MODULE Spec2Model ----
(***************************************************************************)
(* Message-to-bet pipeline of rpa-apostas-esportivas:                      *)
(*   TelegramMonitor._message_handler -> TelegramManager._handle_new_bet   *)
(*   -> TelegramManager.bet_queue -> TelegramManager._process_bet_queue    *)
(*   -> Application.process_bet -> BrowserManager.bet_queue                *)
(*   -> BrowserManager._process_bet_queue (worker thread),                 *)
(* with the persistence store behind SupabaseClient / LocalStorageClient.  *)
(*                                                                         *)
(* Concurrency: every coroutine runs on one asyncio event loop, so the     *)
(* code between two suspension points is atomic with respect to the other  *)
(* coroutines; the browser worker is a real thread and interleaves with    *)
(* everything.  asyncio.CancelledError is a BaseException (Python >= 3.8): *)
(* "except Exception" does not catch it.                                   *)
(***************************************************************************)
EXTENDS Integers, Sequences, FiniteSets, TLC

\* ---- bounds ----
MaxMsgs == 2
MaxCallbacks == 2
MaxStops == 2
MaxPrior == 1
MaxStarts == 2

\* Handlers other than the manager's own added to the monitor
MaxForeign == 2

\* Moments a created_at / updated_at can hold
MaxStamp == 2

Msgs == 1..MaxMsgs
PriorMsg == 0
NoBet == 0
NoId == 0

VARIABLES
    credentials,   \* all([api_id, api_hash, group_id]) of the monitor
    mpc,           \* position of the task running TelegramMonitor.start
    client,        \* TelegramMonitor.client is not None
    connected,     \* the Telegram client holds a connection
    is_running,    \* TelegramMonitor.is_running
    bet_handlers,  \* len(TelegramMonitor.bet_handlers)
    startResult,   \* value returned by TelegramManager.start ("none" before)
    arrived,       \* number of chat messages delivered so far
    callbacks,     \* TelegramManager.callbacks
    bet_queue,     \* TelegramManager.bet_queue (asyncio.Queue)
    pc,            \* position of the task running _process_bet_queue
    cur,           \* bet_data held by the processing loop (NoBet: none)
    idx,           \* position of the for loop over self.callbacks
    spc,           \* position of TelegramManager.stop
    stops,         \* number of stop() calls so far
    store,         \* persisted bets (bets.json / table "bets")
    exec_queue,    \* BrowserManager.bet_queue (queue.Queue)
    wrunning,      \* BrowserManager.running
    wthread,       \* the worker thread is alive
    browser,       \* BrowserManager.browser is not None
    bpc,           \* position of BrowserManager.stop
    wpc,           \* position of the worker thread in its loop body
    wcur,          \* bet held by the worker
    ppc,           \* position of Application.process_pending_bets
    ppList,        \* pending_bets still to be handled by it
    ppCur,         \* the pending bet it is handling
    orphans,       \* live processing tasks _processing_task no longer names
    content,       \* per message, the payload dict the monitor built for it
    foreign,       \* handlers added to the monitor ahead of _handle_new_bet
    message_text,  \* text given to is_bet_message / parse_message
    is_bet,        \* what is_bet_message returned for it
    parsed,        \* what parse_message returned for it
    roundtrip,     \* a record object, its to_dict and the from_dict of that
    apc,           \* position of Application.stop / TelegramIntegration.stop
    loop_running,  \* the event loop is inside run_forever
    \* ---- history (observation only) ----
    puts,          \* messages put on the intake queue, in order
    dequeued,      \* messages taken from the intake queue, in order
    calls,         \* callback invocations, in order
    raised,        \* callback invocations that raised
    consumed,      \* task_done marks: message and len(callbacks) then
    saveLog,       \* save_bet calls: message, caller, returned id
    handed,        \* add_bet_to_queue calls: message, id, caller
    executed,      \* place_bet calls of the worker: id, success
    lost,          \* bets the worker took without calling place_bet
    queuedLog,     \* log_action("bet_queued", ...) calls: message, id
    notified       \* handler notifications of the monitor: message, position

tgVars == <<credentials, mpc, client, connected, is_running, bet_handlers,
            startResult, arrived>>
loopVars == <<callbacks, bet_queue, pc, cur, idx>>
stopVars == <<spc, stops>>
workerVars == <<wrunning, wthread, browser, bpc, wpc, wcur>>
ppVars == <<ppc, ppList, ppCur>>
histVars == <<puts, dequeued, calls, raised, consumed, saveLog, handed,
              executed, lost>>
handlerVars == <<foreign, notified>>
parserVars == <<message_text, is_bet, parsed, roundtrip>>
appVars == <<apc, loop_running>>
vars == <<tgVars, loopVars, stopVars, store, exec_queue, workerVars,
          ppVars, orphans, content, histVars, queuedLog, handlerVars,
          parserVars, appVars>>

Statuses == {"pending", "queued", "processing", "completed", "failed"}

\* stake of a bet whose message has no "Stake:" token (None)
NoStake == 0

\* config["betting"]["default_stake"]
DefaultStake == 10

\* The messages the monitor handles have no "Stake:" line: its
\* _extract_bet_data leaves stake at None
MsgStake == NoStake

\* Pending records left by earlier runs: the monitor's own save keeps the
\* stake of the message (None without a "Stake:" token), the save of
\* process_bet stores the stake it applied
PriorStakes == {NoStake, DefaultStake}
CallbackKinds == {"process_bet", "other"}

\* ---- persistence store ----

\* LocalStorageClient.save_bet: a new id, the payload's status, appended
NewId(st) == Len(st) + 1

SaveBet(st, m, status, stake) ==
    Append(st, [id |-> NewId(st), msg |-> m, status |-> status, stake |-> stake])

\* LocalStorageClient.update_bet_status: the record with that id gets the
\* status, whatever its present status is; an unknown id changes nothing
UpdateBetStatus(st, id, status) ==
    [i \in DOMAIN st |-> IF st[i].id = id THEN [st[i] EXCEPT !.status = status]
                                           ELSE st[i]]

\* LocalStorageClient.get_pending_bets: the pending records, oldest first
RECURSIVE PendingOf(_)
PendingOf(st) ==
    IF st = <<>> THEN <<>>
    ELSE IF Head(st).status = "pending"
         THEN <<Head(st)>> \o PendingOf(Tail(st))
         ELSE PendingOf(Tail(st))

GetPendingBets(st) == PendingOf(st)

StatusOf(id) == store[id].status

AddBetToQueueTwice(q, bet) == Append(Append(q, bet), bet)

\* BrowserManager.add_bet_to_queue
AddBetToQueue(q, bet) == Append(q, bet)

\* ---- the event loop ----
\* The loop runs and no coroutine is between two suspension points: every
\* processing task is not started, suspended or finished, and
\* process_pending_bets (which never suspends) is not under way.
SuspendedAt == {"none", "spawned", "get", "suspended", "cancelled"}
LoopSuspended == pc \in SuspendedAt
OrphansSuspended == \A o \in DOMAIN orphans : orphans[o].pc \in SuspendedAt
EventLoopFree ==
    /\ loop_running
    /\ LoopSuspended
    /\ OrphansSuspended
    /\ ppc \in {"idle", "done"}

\* created_at of a payload that has none (None)
NoTime == 0

\* The dict of a message the monitor has not handled
NoPayload == [race |-> "", horse_name |-> "", odds |-> 0, created_at |-> NoTime]

\* No text has been given to the parser yet
NoText == <<>>

\* parse_message returned None
NoRecord == [ok |-> FALSE, tier |-> "none", race |-> <<>>, horse_name |-> <<>>,
             odds |-> 0, stake |-> NoStake, bet_type |-> <<>>]

Init ==
    /\ credentials \in BOOLEAN
    /\ mpc = "none"
    /\ client = FALSE
    /\ connected = FALSE
    /\ is_running = FALSE
    /\ bet_handlers = 0
    /\ startResult = "none"
    /\ arrived = 0
    /\ callbacks = <<>>
    /\ bet_queue = <<>>
    /\ pc = "none"
    /\ cur = NoBet
    /\ idx = 0
    /\ spc = "idle"
    /\ stops = 0
    /\ store \in UNION {{[i \in 1..k |-> [id |-> i, msg |-> PriorMsg,
                                           status |-> "pending", stake |-> f[i]]] :
                             f \in [1..k -> PriorStakes]} : k \in 0..MaxPrior}
    /\ exec_queue = <<>>
    /\ wrunning = FALSE
    /\ wthread = FALSE
    /\ browser = FALSE
    /\ bpc = "idle"
    /\ wpc = "idle"
    /\ wcur = [msg |-> NoBet, id |-> NoId]
    /\ ppc = "idle"
    /\ ppList = <<>>
    /\ ppCur = [msg |-> NoBet, id |-> NoId]
    /\ orphans = <<>>
    /\ content = [m \in Msgs |-> NoPayload]
    /\ foreign = 0
    /\ message_text = NoText
    /\ is_bet = FALSE
    /\ parsed = [NoRecord EXCEPT !.tier = "unparsed"]
    /\ roundtrip = [stage |-> "none"]
    /\ apc = "idle"
    /\ loop_running = TRUE
    /\ queuedLog = <<>>
    /\ notified = <<>>
    /\ puts = <<>>
    /\ dequeued = <<>>
    /\ calls = <<>>
    /\ raised = <<>>
    /\ consumed = <<>>
    /\ saveLog = <<>>
    /\ handed = <<>>
    /\ executed = <<>>
    /\ lost = <<>>

\* ---- TelegramManager.start / TelegramMonitor.start ----

\* TelegramManager.start ends with "return True" on every path
StartReturn == "true"

\* TelegramManager.start: registers _handle_new_bet with the monitor, creates
\* the monitor task and the processing task (neither has run yet), returns.
\* Every caller goes through create_telegram_manager: one start per manager.
Start ==
    /\ startResult = "none"
    /\ EventLoopFree
    /\ bet_handlers' = bet_handlers + 1
    /\ mpc' = "spawned"
    /\ pc' = "spawned"
    /\ startResult' = StartReturn
    /\ UNCHANGED <<credentials, client, connected, is_running, arrived,
                   callbacks, bet_queue, cur, idx, stopVars, store,
                   exec_queue, workerVars, ppVars, histVars,
                   orphans, content,
                   queuedLog, handlerVars, parserVars, appVars>>

\* TelegramMonitor.start, run by the task start() created: returns False
\* without a client when a credential is missing; otherwise builds the client
\* and connects; a rejected connection raises and is answered with False.
MonitorStart ==
    /\ mpc = "spawned"
    /\ EventLoopFree
    /\ IF ~credentials
       THEN /\ mpc' = "returned_false"
            /\ UNCHANGED <<client, connected, is_running>>
       ELSE /\ client' = TRUE
            /\ \E accepted \in BOOLEAN :
                 IF accepted
                 THEN /\ connected' = TRUE
                      /\ is_running' = TRUE
                      /\ mpc' = "connected"
                 ELSE /\ mpc' = "returned_false"
                      /\ UNCHANGED <<connected, is_running>>
    /\ UNCHANGED <<credentials, bet_handlers, startResult, arrived, loopVars,
                   stopVars, store, exec_queue, workerVars, ppVars, histVars,
                   orphans, content,
                   queuedLog, handlerVars, parserVars, appVars>>

\* ---- TelegramMonitor._message_handler with TelegramManager._handle_new_bet ----

\* The payload the monitor builds: it gets the id of the monitor's own save
\* (LocalStorageClient.save_bet writes it into the dict it was given).
Payload(m, id) == [msg |-> m, id |-> id]

\* One put per registered handler
PutAll(q, n, x) == q \o [i \in 1..n |-> x]

MessageHandler ==
    /\ connected
    /\ arrived < MaxMsgs
    /\ EventLoopFree
    /\ arrived' = arrived + 1
    /\ \E extracted \in BOOLEAN :
         LET m == arrived + 1 IN
         IF extracted
         THEN \E saved \in BOOLEAN :
                LET id == IF saved THEN NewId(store) ELSE NoId IN
                /\ store' = IF saved THEN SaveBet(store, m, "pending", MsgStake) ELSE store
                /\ saveLog' = Append(saveLog, [msg |-> m, by |-> "monitor", id |-> id])
                /\ bet_queue' = PutAll(bet_queue, bet_handlers, Payload(m, id))
                /\ puts' = PutAll(puts, bet_handlers, m)
         ELSE UNCHANGED <<store, saveLog, bet_queue, puts>>
    /\ UNCHANGED <<credentials, mpc, client, connected, is_running,
                   bet_handlers, startResult, callbacks, pc, cur, idx,
                   stopVars, exec_queue, workerVars, ppVars, dequeued, calls,
                   raised, consumed, handed, executed, lost,
                   orphans, content,
                   queuedLog, handlerVars, parserVars, appVars>>

\* ---- handlers of other subscribers ----

\* monitor.add_bet_handler(handler) by another subscriber, before the manager
\* adds its own _handle_new_bet in start(): the handler stands ahead of it in
\* bet_handlers
AddForeignHandler ==
    /\ startResult = "none"
    /\ foreign < MaxForeign
    /\ foreign' = foreign + 1
    /\ UNCHANGED <<tgVars, loopVars, stopVars, store, exec_queue, workerVars,
                   ppVars, histVars, orphans, content, queuedLog, notified,
                   parserVars, appVars>>

\* _message_handler with other subscribers' handlers ahead of the manager's:
\* each of them returns or raises.  "for handler in self.bet_handlers: await
\* handler(bet_data)" calls r handlers when the r-th of the n raises (r = 0:
\* none raises): the exception leaves the for loop for the "except Exception"
\* of _message_handler
MessageHandlerForeign ==
    /\ connected
    /\ arrived < MaxMsgs
    /\ EventLoopFree
    /\ arrived' = arrived + 1
    /\ \E extracted \in BOOLEAN :
         LET m == arrived + 1 IN
         IF extracted
         THEN \E saved \in BOOLEAN, r \in 0..foreign :
                LET id == IF saved THEN NewId(store) ELSE NoId
                    n == foreign + bet_handlers
                    called == IF r = 0 THEN n ELSE r
                    reached == called - foreign IN
                /\ store' = IF saved THEN SaveBet(store, m, "pending", MsgStake) ELSE store
                /\ saveLog' = Append(saveLog, [msg |-> m, by |-> "monitor", id |-> id])
                /\ notified' = Append(notified, [msg |-> m, registered |-> n,
                                                 called |-> called])
                /\ bet_queue' = IF reached > 0
                                THEN PutAll(bet_queue, reached, Payload(m, id))
                                ELSE bet_queue
                /\ puts' = IF reached > 0 THEN PutAll(puts, reached, m) ELSE puts
         ELSE UNCHANGED <<store, saveLog, bet_queue, puts, notified>>
    /\ UNCHANGED <<credentials, mpc, client, connected, is_running,
                   bet_handlers, startResult, callbacks, pc, cur, idx,
                   stopVars, exec_queue, workerVars, ppVars, dequeued, calls,
                   raised, consumed, handed, executed, lost,
                   orphans, content, queuedLog, foreign, parserVars, appVars>>

\* ---- the message text and the payload dict ----
\* A chat message "Corrida: <race>\nCavalo: <horse_name>\nOdds: <odds>" is
\* given by what stands in the three places: blanks or a name, and a number
\* or something that is no number.
RawRaces == {" ", "A"}
RawHorses == {" ", "B"}
RawOdds == {"0", "2.5", "x"}
Texts == [race : RawRaces, horse_name : RawHorses, odds : RawOdds]

\* str.strip()
Strip(str) == IF str = " " THEN "" ELSE str

\* The group (\d+\.?\d*) after "Odds:" matches
OddsMatch(str) == str \in {"0", "2.5"}

\* float(), in tenths
ToFloat(str) == CASE str = "0" -> 0 [] str = "2.5" -> 25

\* TelegramMonitor._extract_bet_data: None when the pattern does not match
\* (ok is false); otherwise the dict, with the captured names stripped, the
\* odds converted and created_at None.  Nothing is validated: a name of
\* blanks matches (.+?) and gives "", the odds "0" give 0.0.
ExtractBetData(text) ==
    IF OddsMatch(text.odds)
    THEN [ok |-> TRUE,
          data |-> [race |-> Strip(text.race),
                    horse_name |-> Strip(text.horse_name),
                    odds |-> ToFloat(text.odds),
                    created_at |-> NoTime]]
    ELSE [ok |-> FALSE, data |-> NoPayload]

\* datetime.now() inside save_bet: the moment of the call, counted in save
\* calls made so far
Now(log) == Len(log) + 1

\* save_bet: "if 'created_at' not in bet_data or not bet_data['created_at']:
\* bet_data['created_at'] = datetime.now().isoformat()"
SaveCreatedAt(c, now) == IF c = NoTime THEN now ELSE c

\* _message_handler on a text: the dict of _extract_bet_data is given to
\* save_bet, which writes created_at into it, and then to every handler;
\* _handle_new_bet puts a dict that has "raw_message" on the queue as it is.
MessageHandlerText ==
    /\ connected
    /\ arrived < MaxMsgs
    /\ EventLoopFree
    /\ arrived' = arrived + 1
    /\ \E text \in Texts :
         LET m == arrived + 1
             x == ExtractBetData(text) IN
         IF x.ok
         THEN \E saved \in BOOLEAN :
                LET id == IF saved THEN NewId(store) ELSE NoId IN
                /\ store' = IF saved THEN SaveBet(store, m, "pending", MsgStake) ELSE store
                /\ saveLog' = Append(saveLog, [msg |-> m, by |-> "monitor", id |-> id])
                /\ content' = [content EXCEPT ![m] =
                                  [x.data EXCEPT !.created_at =
                                      SaveCreatedAt(@, Now(saveLog))]]
                /\ bet_queue' = PutAll(bet_queue, bet_handlers, Payload(m, id))
                /\ puts' = PutAll(puts, bet_handlers, m)
         ELSE UNCHANGED <<store, saveLog, content, bet_queue, puts>>
    /\ UNCHANGED <<credentials, mpc, client, connected, is_running,
                   bet_handlers, startResult, callbacks, pc, cur, idx,
                   stopVars, exec_queue, workerVars, ppVars, orphans,
                   dequeued, calls, raised, consumed, handed, executed, lost,
                   queuedLog, handlerVars, parserVars, appVars>>

\* dict.get(key, default)
Get(p, key, default) == IF key \in DOMAIN p THEN p[key] ELSE default

\* The BetData the loop builds from a dequeued dict: race, horse_name and
\* odds with "" / 0.0 for a missing key, no created_at argument (the field
\* keeps its default None), and nothing checked
BetObj(p) ==
    [race |-> Get(p, "race", ""),
     horse_name |-> Get(p, "horse_name", ""),
     odds |-> Get(p, "odds", 0),
     created_at |-> NoTime]

\* ---- TelegramManager.register_bet_callback ----

RegisterCallbackFirst(cbs, k) == <<k>> \o cbs

\* self.callbacks.append(callback)
RegisterCallback(cbs, k) == Append(cbs, k)

\* The application registers its process_bet once per manager.
Register ==
    /\ Len(callbacks) < MaxCallbacks
    /\ EventLoopFree
    /\ \E k \in CallbackKinds :
         /\ k = "process_bet" => \A i \in DOMAIN callbacks : callbacks[i] # k
         /\ callbacks' = RegisterCallback(callbacks, k)
    /\ UNCHANGED <<tgVars, bet_queue, pc, cur, idx, stopVars, store,
                   exec_queue, workerVars, ppVars, histVars,
                   orphans, content,
                   queuedLog, handlerVars, parserVars, appVars>>

\* ---- TelegramManager._process_bet_queue ----

\* bet_obj = BetData(race=..., ..., status=...): BetData has no id field
BetDataOf(payload) == payload.msg

QueueGetNewest(q) == [item |-> q[Len(q)], rest |-> SubSeq(q, 1, Len(q) - 1)]

\* asyncio.Queue.get removes and returns the oldest item
QueueGet(q) == [item |-> Head(q), rest |-> Tail(q)]

NextAfterRaiseBreak(i, n) == n + 1

\* "except Exception" around "await callback(bet_obj)": the for loop goes on
\* with the next callback
NextAfterRaise(i, n) == i + 1

\* First step of the task: it enters "while True"
LoopBegin ==
    /\ pc = "spawned"
    /\ loop_running
    /\ ppc \in {"idle", "done"}
    /\ OrphansSuspended
    /\ pc' = "running"
    /\ UNCHANGED <<tgVars, callbacks, bet_queue, cur, idx, stopVars, store,
                   exec_queue, workerVars, ppVars, histVars,
                   orphans, content,
                   queuedLog, handlerVars, parserVars, appVars>>

\* "await self.bet_queue.get()" on an empty queue suspends the task
LoopAwaitGet ==
    /\ pc = "running"
    /\ bet_queue = <<>>
    /\ pc' = "get"
    /\ UNCHANGED <<tgVars, callbacks, bet_queue, cur, idx, stopVars, store,
                   exec_queue, workerVars, ppVars, histVars,
                   orphans, content,
                   queuedLog, handlerVars, parserVars, appVars>>

\* get() returns the oldest payload: at once when the queue is not empty,
\* or when the suspended task is woken by a put
LoopGet ==
    /\ \/ pc = "running"
       \/ pc = "get" /\ loop_running /\ ppc \in {"idle", "done"} /\ OrphansSuspended
    /\ bet_queue # <<>>
    /\ cur' = BetDataOf(QueueGet(bet_queue).item)
    /\ bet_queue' = QueueGet(bet_queue).rest
    /\ dequeued' = Append(dequeued, BetDataOf(QueueGet(bet_queue).item))
    /\ idx' = 1
    /\ pc' = "dispatch"
    /\ UNCHANGED <<tgVars, callbacks, stopVars, store, exec_queue,
                   workerVars, ppVars, puts, calls, raised, consumed,
                   saveLog, handed, executed, lost,
                   orphans, content,
                   queuedLog, handlerVars, parserVars, appVars>>

\* "bet_data.stake or default" and "if not bet.stake: bet.stake = default"
StakeOrDefault(stake) == IF stake = NoStake THEN DefaultStake ELSE stake

ProceedAlways(saved) == TRUE

\* "if saved_bet: ... else: log the failure; return"
ProceedAfterSave(saved) == saved

\* Application.process_bet on a BetData object: builds a Bet with status
\* "pending", saves it, and when the save returned a payload hands the bet,
\* with the id of that save, to the browser manager.  It never suspends, it
\* swallows every Exception, and it does not touch the status.
ProcessBet(m) ==
    \E saved \in BOOLEAN :
      LET id == IF saved THEN NewId(store) ELSE NoId
          stake == StakeOrDefault(MsgStake) IN
      /\ saveLog' = Append(saveLog, [msg |-> m, by |-> "process_bet", id |-> id])
      /\ store' = IF saved THEN SaveBet(store, m, "pending", stake) ELSE store
      /\ IF ProceedAfterSave(saved)
         THEN /\ exec_queue' = AddBetToQueue(exec_queue, [msg |-> m, id |-> id])
              /\ handed' = AddBetToQueue(handed, [msg |-> m, id |-> id,
                                                  by |-> "process_bet",
                                                  stake |-> StakeOrDefault(stake)])
              /\ queuedLog' = Append(queuedLog, [msg |-> m, id |-> id])
         ELSE UNCHANGED <<exec_queue, handed, queuedLog>>

\* "await callback(bet_obj)" for the callback at the loop's position.  A
\* callback other than process_bet returns, raises, or suspends.
LoopInvoke ==
    /\ pc = "dispatch"
    /\ idx <= Len(callbacks)
    /\ calls' = Append(calls, [msg |-> cur, cb |-> idx])
    /\ IF callbacks[idx] = "process_bet"
       THEN /\ ProcessBet(cur)
            /\ idx' = idx + 1
            /\ UNCHANGED <<pc, raised>>
       ELSE /\ \E outcome \in {"returned", "raised", "suspended"} :
                 /\ pc' = IF outcome = "suspended" THEN "suspended" ELSE "dispatch"
                 /\ idx' = IF outcome = "returned" THEN idx + 1
                           ELSE IF outcome = "raised"
                                THEN NextAfterRaise(idx, Len(callbacks))
                                ELSE idx
                 /\ raised' = IF outcome = "raised"
                              THEN Append(raised, [msg |-> cur, cb |-> idx])
                              ELSE raised
            /\ UNCHANGED <<store, exec_queue, handed, saveLog, queuedLog>>
    /\ UNCHANGED <<tgVars, callbacks, bet_queue, cur, stopVars, workerVars,
                   ppVars, puts, dequeued, consumed, executed, lost,
                   orphans, content,
                   handlerVars, parserVars, appVars>>

\* A suspended callback is resumed and returns or raises
LoopResume ==
    /\ pc = "suspended"
    /\ loop_running
    /\ ppc \in {"idle", "done"}
    /\ OrphansSuspended
    /\ pc' = "dispatch"
    /\ \E outcome \in {"returned", "raised"} :
         /\ idx' = IF outcome = "returned" THEN idx + 1
                   ELSE NextAfterRaise(idx, Len(callbacks))
         /\ raised' = IF outcome = "raised"
                      THEN Append(raised, [msg |-> cur, cb |-> idx])
                      ELSE raised
    /\ UNCHANGED <<tgVars, callbacks, bet_queue, cur, stopVars, store,
                   exec_queue, workerVars, ppVars, puts, dequeued, calls,
                   consumed, saveLog, handed, executed, lost,
                   orphans, content,
                   queuedLog, handlerVars, parserVars, appVars>>

TaskDoneTwice(cs, m, n) ==
    Append(Append(cs, [msg |-> m, ncb |-> n]), [msg |-> m, ncb |-> n])

\* self.bet_queue.task_done(), after the for loop: one mark for the bet
TaskDone(cs, m, n) == Append(cs, [msg |-> m, ncb |-> n])

\* The for loop is exhausted: self.bet_queue.task_done(), back to the top
LoopTaskDone ==
    /\ pc = "dispatch"
    /\ idx > Len(callbacks)
    /\ consumed' = TaskDone(consumed, cur, Len(callbacks))
    /\ cur' = NoBet
    /\ idx' = 0
    /\ pc' = "running"
    /\ UNCHANGED <<tgVars, callbacks, bet_queue, stopVars, store, exec_queue,
                   workerVars, ppVars, puts, dequeued, calls, raised,
                   saveLog, handed, executed, lost,
                   orphans, content,
                   queuedLog, handlerVars, parserVars, appVars>>

AfterUnexpectedEnds == "cancelled"

\* The outermost "except Exception" of the loop body only logs: the task is
\* back at the top of "while True"
AfterUnexpected == "running"

\* An exception escapes the loop body outside "try: await callback(bet_obj)"
\* (building bet_obj, the logging of the inner handler, task_done): the rest
\* of the body, task_done included, is skipped for the bet the loop holds
LoopUnexpected ==
    /\ pc = "dispatch"
    /\ pc' = AfterUnexpected
    /\ cur' = NoBet
    /\ idx' = 0
    /\ UNCHANGED <<tgVars, callbacks, bet_queue, stopVars, store, exec_queue,
                   workerVars, ppVars, histVars,
                   orphans, content,
                   queuedLog, handlerVars, parserVars, appVars>>

\* ---- TelegramManager.stop ----

\* task.cancel(): CancelledError is thrown into the task where it is
\* suspended (at get() or inside a callback); neither "except Exception"
\* catches it, "except asyncio.CancelledError: break" ends the loop.  A task
\* that has not run yet never runs.
CancelTask(p) == IF p \in {"spawned", "get", "suspended"} THEN "cancelled" ELSE p

StopBeginCancelFirst ==
    /\ spc \in {"idle", "returned"}
    /\ stops < MaxStops
    /\ EventLoopFree
    /\ stops' = stops + 1
    /\ pc' = CancelTask(pc)
    /\ spc' = IF client THEN "disconnecting" ELSE "waiting"
    /\ UNCHANGED <<connected, is_running, mpc>>
    /\ UNCHANGED <<credentials, client, bet_handlers, startResult, arrived,
                   callbacks, bet_queue, cur, idx, store, exec_queue,
                   workerVars, ppVars, histVars,
                   orphans, content,
                   queuedLog, handlerVars, parserVars, appVars>>

\* stop() up to its first suspension: monitor.stop() disconnects when there
\* is a client (and suspends there); without a client nothing is awaited and
\* stop() goes straight on to cancel the processing task.
StopBegin ==
    /\ spc \in {"idle", "returned"}
    /\ stops < MaxStops
    /\ EventLoopFree
    /\ stops' = stops + 1
    /\ IF client
       THEN /\ connected' = FALSE
            /\ is_running' = FALSE
            /\ mpc' = IF mpc = "connected" THEN "returned_true" ELSE mpc
            /\ spc' = "disconnecting"
            /\ pc' = pc
       ELSE /\ pc' = CancelTask(pc)
            /\ spc' = "waiting"
            /\ UNCHANGED <<connected, is_running, mpc>>
    /\ UNCHANGED <<credentials, client, bet_handlers, startResult, arrived,
                   callbacks, bet_queue, cur, idx, store, exec_queue,
                   workerVars, ppVars, histVars,
                   orphans, content,
                   queuedLog, handlerVars, parserVars, appVars>>

\* stop() after the disconnect: self._processing_task.cancel()
StopCancel ==
    /\ spc = "disconnecting"
    /\ EventLoopFree
    /\ pc' = CancelTask(pc)
    /\ spc' = "waiting"
    /\ UNCHANGED <<tgVars, callbacks, bet_queue, cur, idx, stops, store,
                   exec_queue, workerVars, ppVars, histVars,
                   orphans, content,
                   queuedLog, handlerVars, parserVars, appVars>>

\* "await self._processing_task" returns once the task has ended
StopReturn ==
    /\ spc = "waiting"
    /\ loop_running
    /\ pc \in {"none", "cancelled"}
    /\ ppc \in {"idle", "done"}
    /\ OrphansSuspended
    /\ spc' = "returned"
    /\ UNCHANGED <<tgVars, loopVars, stops, store, exec_queue, workerVars,
                   ppVars, histVars,
                   orphans, content,
                   queuedLog, handlerVars, parserVars, appVars>>

\* ---- Application.process_pending_bets ----
\* start_async awaits it right after start_telegram, with no suspension in
\* between: the two tasks start() created have not run yet.  It never
\* suspends itself (the store calls do blocking I/O), so no other coroutine
\* runs until it is over; the worker thread does.

BetOf(rec) == [msg |-> rec.msg, id |-> rec.id]

PendingBegin ==
    /\ ppc = "idle"
    /\ startResult = "true"
    /\ mpc = "spawned"
    /\ pc = "spawned"
    /\ spc = "idle"
    /\ ppList' = GetPendingBets(store)
    /\ ppc' = "loop"
    /\ UNCHANGED <<tgVars, loopVars, stopVars, store, exec_queue, workerVars,
                   ppCur, histVars,
                   orphans, content,
                   queuedLog, handlerVars, parserVars, appVars>>

\* for bet_data in pending_bets: add_bet_to_queue(bet)
PendingEnqueue ==
    /\ ppc = "loop"
    /\ ppList # <<>>
    /\ ppCur' = BetOf(Head(ppList))
    /\ ppList' = Tail(ppList)
    /\ exec_queue' = AddBetToQueue(exec_queue, BetOf(Head(ppList)))
    /\ handed' = AddBetToQueue(handed, [msg |-> Head(ppList).msg,
                                       id |-> Head(ppList).id,
                                       by |-> "process_pending_bets",
                                       stake |-> Head(ppList).stake])
    /\ ppc' = "update"
    /\ UNCHANGED <<tgVars, loopVars, stopVars, store, workerVars, puts,
                   dequeued, calls, raised, consumed, saveLog, executed, lost,
                   orphans, content,
                   queuedLog, handlerVars, parserVars, appVars>>

\* await self.db_client.update_bet_status(bet.id, "queued") and the
\* log_action("bet_queued", ...) that follows it
PendingUpdate ==
    /\ ppc = "update"
    /\ store' = UpdateBetStatus(store, ppCur.id, "queued")
    /\ queuedLog' = Append(queuedLog, [msg |-> ppCur.msg, id |-> ppCur.id])
    /\ ppc' = "loop"
    /\ UNCHANGED <<tgVars, loopVars, stopVars, exec_queue, workerVars,
                   ppList, ppCur, histVars,
                   orphans, content,
                   handlerVars, parserVars, appVars>>

PendingEnd ==
    /\ ppc = "loop"
    /\ ppList = <<>>
    /\ ppc' = "done"
    /\ UNCHANGED <<tgVars, loopVars, stopVars, store, exec_queue, workerVars,
                   ppList, ppCur, histVars,
                   orphans, content,
                   queuedLog, handlerVars, parserVars, appVars>>

\* ---- BrowserManager ----

WorkerUpdateStatusAwaited(st, id, status) == UpdateBetStatus(st, id, status)

\* self.db_client.update_bet_status(bet.id, ...) in the worker thread:
\* update_bet_status is "async def" and the call is not awaited, so it only
\* builds a coroutine object that never runs; the store is not touched.
WorkerUpdateStatus(st, id, status) == st

\* BrowserManager.start, successful: browser set, running set, thread started
BrowserStart ==
    /\ bpc = "idle"
    /\ ~wrunning
    /\ ~wthread
    /\ browser' = TRUE
    /\ wrunning' = TRUE
    /\ wthread' = TRUE
    /\ wpc' = "top"
    /\ UNCHANGED <<tgVars, loopVars, stopVars, store, exec_queue, bpc, wcur,
                   ppVars, histVars,
                   orphans, content,
                   queuedLog, handlerVars, parserVars, appVars>>

\* "while self.running": the thread goes on to get(timeout=1) or ends
WorkerCheck ==
    /\ wthread
    /\ wpc = "top"
    /\ IF wrunning
       THEN wpc' = "get" /\ wthread' = wthread
       ELSE wpc' = "idle" /\ wthread' = FALSE
    /\ UNCHANGED <<tgVars, loopVars, stopVars, store, exec_queue, wrunning,
                   browser, bpc, wcur, ppVars, histVars,
                   orphans, content,
                   queuedLog, handlerVars, parserVars, appVars>>

\* get(timeout=1) raised queue.Empty: continue
WorkerTimeout ==
    /\ wpc = "get"
    /\ exec_queue = <<>>
    /\ wpc' = "top"
    /\ UNCHANGED <<tgVars, loopVars, stopVars, store, exec_queue, wrunning,
                   wthread, browser, bpc, wcur, ppVars, histVars,
                   orphans, content,
                   queuedLog, handlerVars, parserVars, appVars>>

\* get() returned a bet.  Without a browser handle the bet is dropped
\* ("continue"); otherwise the status call for "processing" is made when the
\* bet has an id.
WorkerTake ==
    /\ wpc = "get"
    /\ exec_queue # <<>>
    /\ exec_queue' = Tail(exec_queue)
    /\ IF ~browser
       THEN /\ lost' = Append(lost, Head(exec_queue))
            /\ wpc' = "top"
            /\ UNCHANGED <<wcur, store>>
       ELSE /\ wcur' = Head(exec_queue)
            /\ store' = IF Head(exec_queue).id # NoId
                        THEN WorkerUpdateStatus(store, Head(exec_queue).id, "processing")
                        ELSE store
            /\ wpc' = "placing"
            /\ lost' = lost
    /\ UNCHANGED <<tgVars, loopVars, stopVars, wrunning, wthread, browser,
                   bpc, ppVars, puts, dequeued, calls, raised, consumed,
                   saveLog, handed, executed,
                   orphans, content,
                   queuedLog, handlerVars, parserVars, appVars>>

\* take_screenshot, place_bet, take_screenshot, then the status call for
\* "completed" or "failed".  With the handle set to None by stop() the first
\* use raises and the handler of the loop body only logs.
WorkerPlace ==
    /\ wpc = "placing"
    /\ wpc' = "top"
    /\ IF ~browser
       THEN /\ lost' = Append(lost, wcur)
            /\ UNCHANGED <<store, executed>>
       ELSE /\ \E success \in BOOLEAN :
                 /\ executed' = Append(executed, [id |-> wcur.id, msg |-> wcur.msg,
                                                  success |-> success])
                 /\ store' = IF wcur.id # NoId
                             THEN WorkerUpdateStatus(store, wcur.id,
                                      IF success THEN "completed" ELSE "failed")
                             ELSE store
            /\ lost' = lost
    /\ UNCHANGED <<tgVars, loopVars, stopVars, exec_queue, wrunning, wthread,
                   browser, bpc, wcur, ppVars, puts, dequeued, calls, raised,
                   consumed, saveLog, handed,
                   orphans, content,
                   queuedLog, handlerVars, parserVars, appVars>>

\* BrowserManager.stop: running = False, then join(timeout=5) ...
BrowserStopBegin ==
    /\ bpc = "idle"
    /\ wrunning
    /\ wrunning' = FALSE
    /\ bpc' = "joining"
    /\ UNCHANGED <<tgVars, loopVars, stopVars, store, exec_queue, wthread,
                   browser, wpc, wcur, ppVars, histVars,
                   orphans, content,
                   queuedLog, handlerVars, parserVars, appVars>>

\* ... the join returned (thread ended or 5 s elapsed): browser = None
BrowserStopEnd ==
    /\ bpc = "joining"
    /\ browser' = FALSE
    /\ bpc' = "stopped"
    /\ UNCHANGED <<tgVars, loopVars, stopVars, store, exec_queue, wrunning,
                   wthread, wpc, wcur, ppVars, histVars,
                   orphans, content,
                   queuedLog, handlerVars, parserVars, appVars>>

\* ---- Application.start_telegram ----
\* create_telegram_manager() (a new manager, start()) and then
\* register_bet_callback(self.process_bet), with no suspension in between
StartTelegram ==
    /\ startResult = "none"
    /\ EventLoopFree
    /\ bet_handlers' = bet_handlers + 1
    /\ mpc' = "spawned"
    /\ pc' = "spawned"
    /\ startResult' = StartReturn
    /\ callbacks' = RegisterCallback(callbacks, "process_bet")
    /\ UNCHANGED <<credentials, client, connected, is_running, arrived,
                   bet_queue, cur, idx, stopVars, store, exec_queue,
                   workerVars, ppVars, histVars,
                   orphans, content,
                   queuedLog, handlerVars, parserVars, appVars>>

\* ---- start() on a manager that was started before ----
\* start() has no guard: it registers _handle_new_bet once more, creates a
\* new monitor task and a new processing task and overwrites
\* self._processing_task.  The task it named before is neither cancelled nor
\* awaited: when it has not ended it lives on, out of reach of stop().  The
\* new monitor task is followed only when no connection is held; with a
\* connection held it is taken to end without touching it.
StartAgain ==
    /\ startResult # "none"
    /\ bet_handlers < MaxStarts
    /\ EventLoopFree
    /\ bet_handlers' = bet_handlers + 1
    /\ mpc' = IF mpc = "connected" THEN mpc ELSE "spawned"
    /\ orphans' = IF pc = "cancelled" THEN orphans
                  ELSE Append(orphans, [pc |-> pc, cur |-> cur, idx |-> idx])
    /\ pc' = "spawned"
    /\ cur' = NoBet
    /\ idx' = 0
    /\ startResult' = StartReturn
    /\ UNCHANGED <<credentials, client, connected, is_running, arrived,
                   callbacks, bet_queue, stopVars, store, exec_queue,
                   workerVars, ppVars, content, histVars,
                   queuedLog, handlerVars, parserVars, appVars>>

\* The registration of the first callback of the manager
RegisterFirst == callbacks = <<>> /\ Register

\* The steps of _process_bet_queue taken by a task self._processing_task no
\* longer names

OrphanAt(o, p, c, i) == [orphans EXCEPT ![o] = [pc |-> p, cur |-> c, idx |-> i]]

\* Every coroutine but task o is at a suspension point
OthersSuspended(o) ==
    /\ loop_running
    /\ LoopSuspended
    /\ ppc \in {"idle", "done"}
    /\ \A q \in DOMAIN orphans : q # o => orphans[q].pc \in SuspendedAt

OrphanBegin ==
    \E o \in DOMAIN orphans :
      /\ orphans[o].pc = "spawned"
      /\ OthersSuspended(o)
      /\ orphans' = OrphanAt(o, "running", NoBet, 0)
      /\ UNCHANGED <<tgVars, loopVars, stopVars, store, exec_queue,
                     workerVars, ppVars, content, histVars,
                   queuedLog, handlerVars, parserVars, appVars>>

OrphanAwaitGet ==
    \E o \in DOMAIN orphans :
      /\ orphans[o].pc = "running"
      /\ bet_queue = <<>>
      /\ orphans' = OrphanAt(o, "get", NoBet, 0)
      /\ UNCHANGED <<tgVars, loopVars, stopVars, store, exec_queue,
                     workerVars, ppVars, content, histVars,
                   queuedLog, handlerVars, parserVars, appVars>>

OrphanGet ==
    \E o \in DOMAIN orphans :
      /\ \/ orphans[o].pc = "running"
         \/ orphans[o].pc = "get" /\ OthersSuspended(o)
      /\ bet_queue # <<>>
      /\ orphans' = OrphanAt(o, "dispatch", BetDataOf(QueueGet(bet_queue).item), 1)
      /\ bet_queue' = QueueGet(bet_queue).rest
      /\ dequeued' = Append(dequeued, BetDataOf(QueueGet(bet_queue).item))
      /\ UNCHANGED <<tgVars, callbacks, pc, cur, idx, stopVars, store,
                     exec_queue, workerVars, ppVars, content, puts, calls,
                     raised, consumed, saveLog, handed, executed, lost,
                   queuedLog, handlerVars, parserVars, appVars>>

OrphanInvoke ==
    \E o \in DOMAIN orphans :
      LET t == orphans[o] IN
      /\ t.pc = "dispatch"
      /\ t.idx <= Len(callbacks)
      /\ calls' = Append(calls, [msg |-> t.cur, cb |-> t.idx])
      /\ IF callbacks[t.idx] = "process_bet"
         THEN /\ ProcessBet(t.cur)
              /\ orphans' = OrphanAt(o, "dispatch", t.cur, t.idx + 1)
              /\ raised' = raised
         ELSE /\ \E outcome \in {"returned", "raised", "suspended"} :
                   /\ orphans' = OrphanAt(o,
                         IF outcome = "suspended" THEN "suspended" ELSE "dispatch",
                         t.cur,
                         IF outcome = "returned" THEN t.idx + 1
                         ELSE IF outcome = "raised"
                              THEN NextAfterRaise(t.idx, Len(callbacks))
                              ELSE t.idx)
                   /\ raised' = IF outcome = "raised"
                                THEN Append(raised, [msg |-> t.cur, cb |-> t.idx])
                                ELSE raised
              /\ UNCHANGED <<store, exec_queue, handed, saveLog, queuedLog>>
      /\ UNCHANGED <<tgVars, loopVars, stopVars, workerVars, ppVars, content,
                     puts, dequeued, consumed, executed, lost,
                   handlerVars, parserVars, appVars>>

OrphanResume ==
    \E o \in DOMAIN orphans :
      LET t == orphans[o] IN
      /\ t.pc = "suspended"
      /\ OthersSuspended(o)
      /\ \E outcome \in {"returned", "raised"} :
           /\ orphans' = OrphanAt(o, "dispatch", t.cur,
                             IF outcome = "returned" THEN t.idx + 1
                             ELSE NextAfterRaise(t.idx, Len(callbacks)))
           /\ raised' = IF outcome = "raised"
                        THEN Append(raised, [msg |-> t.cur, cb |-> t.idx])
                        ELSE raised
      /\ UNCHANGED <<tgVars, loopVars, stopVars, store, exec_queue,
                     workerVars, ppVars, content, puts, dequeued, calls,
                     consumed, saveLog, handed, executed, lost,
                   queuedLog, handlerVars, parserVars, appVars>>

OrphanTaskDone ==
    \E o \in DOMAIN orphans :
      LET t == orphans[o] IN
      /\ t.pc = "dispatch"
      /\ t.idx > Len(callbacks)
      /\ consumed' = TaskDone(consumed, t.cur, Len(callbacks))
      /\ orphans' = OrphanAt(o, "running", NoBet, 0)
      /\ UNCHANGED <<tgVars, loopVars, stopVars, store, exec_queue,
                     workerVars, ppVars, content, puts, dequeued, calls,
                     raised, saveLog, handed, executed, lost,
                   queuedLog, handlerVars, parserVars, appVars>>

\* ---- telegram/parser.py: message texts as sequences of tokens ----
\* A text is a sequence of tokens: label and name words, numbers, punctuation
\* marks, the blank " " and the line break "\n".  The regular expressions of
\* the parser are case-insensitive (re.IGNORECASE) and is_bet_message lowers
\* the text, so a word stands for all its spellings.

\* Longest name, in words
MaxNameWords == 2

\* \s
IsSpace(tok) == tok \in {" ", "\n"}

\* Tokens that consist of digits with at most one "."
NumberTokens == {"0", "2.5", "20"}

\* float(), in tenths
FloatOf(tok) == CASE tok = "0" -> 0 [] tok = "2.5" -> 25 [] tok = "20" -> 200

\* str.strip()
RECURSIVE StripTokens(_)
StripTokens(s) ==
    IF s # <<>> /\ IsSpace(Head(s)) THEN StripTokens(Tail(s))
    ELSE IF s # <<>> /\ IsSpace(s[Len(s)])
         THEN StripTokens(SubSeq(s, 1, Len(s) - 1))
         ELSE s

\* len(text), in characters
RECURSIVE TextLen(_)
TextLen(s) == IF s = <<>> THEN 0 ELSE Len(Head(s)) + TextLen(Tail(s))

\* ---- regular expressions over tokens ----
\* A pattern is a sequence of items:
\*   "ws"        \s*, greedy
\*   "g1", "g2"  (.+?), lazy, capturing groups 1 and 2; "." matches "\n" too
\*               (re.DOTALL)
\*   "skip"      .*?, lazy
\*   "num"       (\d+\.?\d*), the last capturing group (kept as group 3)
\*   "eol"       (?:\n|$)
\*   any other   that token
Re(code) ==
    CASE code = "ws" -> [k |-> "ws", alts |-> <<>>, g |-> 0]
      [] code = "g1" -> [k |-> "lazy", alts |-> <<>>, g |-> 1]
      [] code = "g2" -> [k |-> "lazy", alts |-> <<>>, g |-> 2]
      [] code = "skip" -> [k |-> "lazy", alts |-> <<>>, g |-> 0]
      [] code = "num" -> [k |-> "num", alts |-> <<>>, g |-> 3]
      [] code = "eol" -> [k |-> "eol", alts |-> <<>>, g |-> 0]
      [] OTHER -> [k |-> "lit", alts |-> <<<<code>>>>, g |-> 0]

\* (?:a|b|...): one of several token sequences, tried in order
Alt(alts) == [k |-> "lit", alts |-> alts, g |-> 0]

NoMatch == [ok |-> FALSE, start |-> 0, end |-> 0, groups |-> <<<<>>, <<>>, <<>>>>]

\* Number of whitespace tokens from position pos on
RECURSIVE SpaceRun(_, _)
SpaceRun(s, pos) ==
    IF pos <= Len(s) /\ IsSpace(s[pos]) THEN 1 + SpaceRun(s, pos + 1) ELSE 0

\* s has the tokens of lit at position pos
HasAt(s, pos, lit) ==
    /\ pos + Len(lit) - 1 <= Len(s)
    /\ \A i \in 1..Len(lit) : s[pos + i - 1] = lit[i]

\* The backtracking match of items k.. of pat at position pos of s, in the
\* order re tries the possibilities: the first success is the match.
\* Try goes through the possibilities of item k from the n-th on: the
\* alternatives of a literal in order, the lengths of \s* from the longest
\* down, the lengths of a lazy item from the shortest up.
RECURSIVE MatchAt(_, _, _, _, _)
RECURSIVE Try(_, _, _, _, _, _)

MatchAt(s, pat, k, pos, groups) ==
    IF k > Len(pat)
    THEN [ok |-> TRUE, start |-> 0, end |-> pos, groups |-> groups]
    ELSE LET it == pat[k] IN
         CASE it.k = "lit" -> Try(s, pat, k, pos, groups, 1)
           [] it.k = "ws" -> Try(s, pat, k, pos, groups, SpaceRun(s, pos))
           [] it.k = "lazy" -> Try(s, pat, k, pos, groups, IF it.g = 0 THEN 0 ELSE 1)
           [] it.k = "num" ->
                IF pos <= Len(s) /\ s[pos] \in NumberTokens
                THEN MatchAt(s, pat, k + 1, pos + 1,
                             [groups EXCEPT ![it.g] = <<s[pos]>>])
                ELSE NoMatch
           [] it.k = "eol" ->
                IF pos > Len(s) THEN MatchAt(s, pat, k + 1, pos, groups)
                ELSE IF s[pos] = "\n"
                     THEN MatchAt(s, pat, k + 1, pos + 1, groups)
                     ELSE NoMatch

Try(s, pat, k, pos, groups, n) ==
    LET it == pat[k] IN
    CASE it.k = "lit" ->
           IF n > Len(it.alts) THEN NoMatch
           ELSE LET m == IF HasAt(s, pos, it.alts[n])
                         THEN MatchAt(s, pat, k + 1, pos + Len(it.alts[n]), groups)
                         ELSE NoMatch IN
                IF m.ok THEN m ELSE Try(s, pat, k, pos, groups, n + 1)
      [] it.k = "ws" ->
           LET m == MatchAt(s, pat, k + 1, pos + n, groups) IN
           IF m.ok THEN m
           ELSE IF n = 0 THEN NoMatch ELSE Try(s, pat, k, pos, groups, n - 1)
      [] it.k = "lazy" ->
           IF pos + n - 1 > Len(s) THEN NoMatch
           ELSE LET m == MatchAt(s, pat, k + 1, pos + n,
                                 IF it.g = 0 THEN groups
                                 ELSE [groups EXCEPT
                                          ![it.g] = SubSeq(s, pos, pos + n - 1)]) IN
                IF m.ok THEN m ELSE Try(s, pat, k, pos, groups, n + 1)

\* The match at the leftmost position from pos on that has one
RECURSIVE SearchFrom(_, _, _)
SearchFrom(s, pat, pos) ==
    IF pos > Len(s) + 1 THEN NoMatch
    ELSE LET m == MatchAt(s, pat, 1, pos, NoMatch.groups) IN
         IF m.ok THEN [m EXCEPT !.start = pos] ELSE SearchFrom(s, pat, pos + 1)

\* re.search.  A match needs each literal of the pattern somewhere in the
\* text and a number for the number group; without them no position is tried.
Search(s, pat) ==
    IF \E k \in DOMAIN pat :
          \/ /\ pat[k].k = "lit"
             /\ \A a \in DOMAIN pat[k].alts, p \in 1..(Len(s) + 1) :
                    ~HasAt(s, p, pat[k].alts[a])
          \/ /\ pat[k].k = "num"
             /\ \A p \in DOMAIN s : s[p] \notin NumberTokens
    THEN NoMatch
    ELSE SearchFrom(s, pat, 1)

\* MessageParser.PATTERNS
PATTERNS ==
    <<<<Re("Corrida"), Re(":"), Re("ws"), Re("g1"), Re("ws"), Re("\n"), Re("skip"),
        Re("Cavalo"), Re(":"), Re("ws"), Re("g2"), Re("ws"), Re("\n"), Re("skip"),
        Re("Odds"), Re(":"), Re("ws"), Re("num")>>,
      <<Re("Aposta"), Re(":"), Re("ws"), Re("g1"), Re("ws"), Re("-"), Re("ws"),
        Re("g2"), Re("ws"), Re("@"), Re("ws"), Re("num")>>,
      <<Re("Corrida"), Re("ws"), Re("g1"), Re("ws"), Re(":"), Re("ws"), Re("g2"),
        Re("ws"), Re("("), Re("num"), Re(")")>>,
      <<Alt(<<<<"Apostar", " ", "em">>, <<"Bet", " ", "on">>, <<>>>>), Re("ws"),
        Re("g1"), Re("ws"),
        Alt(<<<<"na", " ", "Corrida">>, <<"in", " ", "Race">>>>), Re("ws"),
        Re("g2"), Re("ws"), Alt(<<<<"@">>, <<"Odds">>>>), Re("ws"), Re("num")>>,
      <<Alt(<<<<"Corrida">>, <<"Race">>>>), Re("ws"), Re("g1"), Re("ws"),
        Alt(<<<<"Cavalo">>, <<"Horse">>>>), Re("ws"), Re("g2"), Re("ws"),
        Alt(<<<<"@">>, <<"Odds">>>>), Re("ws"), Re("num")>>>>

\* First tier: the first pattern that matches gives the record, with the
\* groups of pattern 4 ("na corrida" / "in race") taken as horse, race; the
\* stake is looked for with (?:Stake|stake|STAKE):\s*(\d+\.?\d*) and the type
\* with (?:Tipo|tipo|TYPE|type):\s*(.+?)(?:\n|$).  Nothing is checked about
\* the captured names or the value of the odds.
RECURSIVE PatternTier(_, _)
PatternTier(s, p) ==
    IF p > Len(PATTERNS) THEN NoRecord
    ELSE LET m == Search(s, PATTERNS[p])
             stake == Search(s, <<Re("Stake"), Re(":"), Re("ws"), Re("num")>>)
             type == Search(s, <<Alt(<<<<"Tipo">>, <<"Type">>>>), Re(":"), Re("ws"),
                                 Re("g1"), Re("eol")>>) IN
         IF m.ok
         THEN [ok |-> TRUE, tier |-> "pattern",
               race |-> StripTokens(m.groups[IF p = 4 THEN 2 ELSE 1]),
               horse_name |-> StripTokens(m.groups[IF p = 4 THEN 1 ELSE 2]),
               odds |-> FloatOf(m.groups[3][1]),
               stake |-> IF stake.ok THEN FloatOf(stake.groups[3][1]) ELSE NoStake,
               bet_type |-> IF type.ok THEN StripTokens(type.groups[1])
                            ELSE <<"win">>]
         ELSE PatternTier(s, p + 1)

\* message_text.split('\n')
RECURSIVE SplitLines(_, _)
SplitLines(s, part) ==
    IF s = <<>> THEN <<part>>
    ELSE IF Head(s) = "\n" THEN <<part>> \o SplitLines(Tail(s), <<>>)
         ELSE SplitLines(Tail(s), Append(part, Head(s)))

HasWord(line, words) == \E i \in DOMAIN line : line[i] \in words

\* line.split(":", 1)[1].strip() for a line with a colon, otherwise
\* re.sub(r'(?:cavalo|horse)', '', line).strip()
ValueOf(line, words) ==
    IF HasWord(line, {":"})
    THEN LET i == CHOOSE j \in DOMAIN line :
                      line[j] = ":" /\ \A h \in 1..(j - 1) : line[h] # ":" IN
         StripTokens(SubSeq(line, i + 1, Len(line)))
    ELSE StripTokens(SelectSeq(line, LAMBDA tok : tok \notin words))

\* Second tier: the first line with a word for horse and the first with a
\* word for race give the names, the first number of the first line with
\* "odds" or "@" the odds, whatever stands before the number; 0 stands for
\* "odds = None" and for 0.0, which "if horse_name and race and odds" treats
\* alike.  BetData is built without stake and bet_type.
FlexibleTier(s) ==
    LET lines == SplitLines(s, <<>>)
        horse_lines == SelectSeq(lines, LAMBDA l : HasWord(l, {"Cavalo", "Horse"}))
        race_lines == SelectSeq(lines, LAMBDA l : HasWord(l, {"Corrida", "Race"}))
        odds_lines == SelectSeq(lines, LAMBDA l : HasWord(l, {"Odds", "@"})) IN
    IF horse_lines # <<>> /\ race_lines # <<>>
    THEN LET horse_name == ValueOf(horse_lines[1], {"Cavalo", "Horse"})
             race == ValueOf(race_lines[1], {"Corrida", "Race"})
             nums == IF odds_lines = <<>> THEN <<>>
                     ELSE SelectSeq(odds_lines[1], LAMBDA tok : tok \in NumberTokens)
             odds == IF nums = <<>> THEN 0 ELSE FloatOf(nums[1]) IN
         IF horse_name # <<>> /\ race # <<>> /\ odds # 0
         THEN [ok |-> TRUE, tier |-> "flexible", race |-> race,
               horse_name |-> horse_name, odds |-> odds,
               stake |-> NoStake, bet_type |-> <<"win">>]
         ELSE NoRecord
    ELSE NoRecord

\* re.split(r'[\s,.]', context): the words, each a sequence of the pieces
\* written without a separator between them ("2.5" is "2", ".", "5")
RECURSIVE SplitWords(_, _)
SplitWords(s, part) ==
    IF s = <<>> THEN <<part>>
    ELSE LET tok == Head(s) IN
         IF IsSpace(tok) \/ tok \in {",", "."}
         THEN <<part>> \o SplitWords(Tail(s), <<>>)
         ELSE IF tok = "2.5"
              THEN <<Append(part, "2")>> \o SplitWords(Tail(s), <<"5">>)
              ELSE SplitWords(Tail(s), Append(part, tok))

\* Third tier: for each "@ number" (@\s*(\d+\.?\d*)) from position pos on,
\* the words longer than 2 characters of the 100 characters on each side of
\* it (a token the window cuts is taken whole); with four words or more the
\* first two are the race and the two before the middle the horse.  BetData
\* is built without stake and bet_type.
RECURSIVE LastResortTier(_, _)
LastResortTier(s, pos) ==
    LET m == SearchFrom(s, <<Re("@"), Re("ws"), Re("num")>>, pos) IN
    IF ~m.ok THEN NoRecord
    ELSE LET from == TextLen(SubSeq(s, 1, m.start - 1)) - 100
             to == TextLen(SubSeq(s, 1, m.end - 1)) + 100
             context == SelectSeq([i \in DOMAIN s |->
                                      IF /\ TextLen(SubSeq(s, 1, i)) > from
                                         /\ TextLen(SubSeq(s, 1, i - 1)) < to
                                      THEN s[i] ELSE ""],
                                  LAMBDA tok : tok # "")
             words == SelectSeq(SplitWords(context, <<>>),
                                LAMBDA w : TextLen(w) > 2)
             n == Len(words) IN
         IF n >= 4
         THEN [ok |-> TRUE, tier |-> "last_resort",
               race |-> words[1] \o <<" ">> \o words[2],
               horse_name |-> words[(n \div 2) - 1] \o <<" ">> \o words[n \div 2],
               odds |-> FloatOf(m.groups[3][1]),
               stake |-> NoStake, bet_type |-> <<"win">>]
         ELSE LastResortTier(s, m.end)

ParseMessageLastResortFirst(s) ==
    LET first == PatternTier(s, 1)
        second == FlexibleTier(s)
        third == LastResortTier(s, 1) IN
    IF third.ok THEN third
    ELSE IF second.ok THEN second
         ELSE first

\* MessageParser.parse_message: the tiers in order; the flexible tier runs
\* only when a word for horse and a word for race are in the text
ParseMessage(s) ==
    LET first == PatternTier(s, 1)
        second == IF /\ HasWord(s, {"Cavalo", "Horse"})
                     /\ HasWord(s, {"Corrida", "Race"})
                  THEN FlexibleTier(s) ELSE NoRecord
        third == LastResortTier(s, 1) IN
    IF first.ok THEN first
    ELSE IF second.ok THEN second
         ELSE third

\* ---- is_bet_message ----
\* sum(1 for keyword in keywords if keyword in text): each keyword is in the
\* text by the token that spells it
KeywordCount(s) ==
    Cardinality({s[i] : i \in DOMAIN s} \cap
                {"Aposta", "Corrida", "Cavalo", "Odds", "Stake", "Bet", "Race",
                 "Horse", "win", "place", "show", "Jockey", "hipodromo", "track",
                 "pista", "joquei"})

\* any(re.search(pattern, text) for pattern in odds_patterns)
HasOdds(s) ==
    \E pat \in {<<Re("@"), Re("ws"), Re("num")>>,
                <<Re("num"), Re("ws"), Re("@")>>,
                <<Re("Odds"), Re("ws"), Re("num")>>,
                <<Re("num"), Re("ws"), Re("Odds")>>,
                <<Re("Odds"), Re(":"), Re("ws"), Re("num")>>,
                <<Re("("), Re("ws"), Re("num"), Re("ws"), Re(")")>>,
                <<Re("cotacao"), Re("ws"), Re("num")>>,
                <<Re("cota"), Re("ws"), Re("num")>>} :
        Search(s, pat).ok

CombineAnyKeywords(kc, odds, specific, structured, long) ==
    /\ \/ kc >= 2
       \/ kc >= 1 /\ odds /\ specific
       \/ structured /\ odds /\ kc >= 1
    /\ long

CombineNoStructured(kc, odds, specific, structured, long) ==
    /\ \/ kc >= 2 /\ odds
       \/ kc >= 1 /\ odds /\ specific
    /\ long

\* "is_bet = (... or ... or ...) and min_length"
Combine(kc, odds, specific, structured, long) ==
    /\ \/ kc >= 2 /\ odds
       \/ kc >= 1 /\ odds /\ specific
       \/ structured /\ odds /\ kc >= 1
    /\ long

\* specific_patterns: one of "corrida:", "cavalo:", "aposta:", "race:",
\* "horse:", "bet:" in the text
SpecificPatterns(s) ==
    \E i \in DOMAIN s :
        /\ s[i] \in {"Corrida", "Cavalo", "Aposta", "Race", "Horse", "Bet"}
        /\ i < Len(s)
        /\ s[i + 1] = ":"

\* is_bet_message: the keywords, the odds patterns, the label patterns, a
\* line break in the text (structured_format), and len(text) > 10
IsBetMessage(s) ==
    Combine(KeywordCount(s),
            HasOdds(s),
            SpecificPatterns(s),
            HasWord(s, {"\n"}),
            TextLen(s) > 10)

\* ---- the texts given to the classifier and the parser ----
\* Names of up to n words of W, the empty name among them
RECURSIVE NamesOf(_, _)
NamesOf(W, n) ==
    IF n = 0 THEN {<<>>}
    ELSE LET shorter == NamesOf(W, n - 1) IN
         shorter \cup {IF nm = <<>> THEN <<w>> ELSE nm \o <<" ", w>> :
                          nm \in shorter, w \in W}

RaceNames == NamesOf({"Derby", "Jockey"}, MaxNameWords)
HorseNames == NamesOf({"Storm", "B"}, MaxNameWords)

\* The layouts of a race r, a horse h and odds z:
\*   "labeled_pt"  "Corrida: R / Cavalo: H / Odds: Z" on lines of their own
\*   "labeled_en"  "Race: R / Horse: H / Odds: Z" on lines of their own
\*   "compact_pt"  "Aposta: R - H @ Z"
\*   "compact_en"  "Bet: R - H @ Z"
\*   "paren"       "Corrida R: H (Z)"
\*   "sentence_en" "Bet on H in Race R @ Z"
\*   "inline_en"   "Race R Horse H Odds Z"
Layout(kind, r, h, z) ==
    CASE kind = "labeled_pt" ->
           <<"Corrida", ":", " ">> \o r \o <<"\n", "Cavalo", ":", " ">> \o h
               \o <<"\n", "Odds", ":", " ">> \o z
      [] kind = "labeled_en" ->
           <<"Race", ":", " ">> \o r \o <<"\n", "Horse", ":", " ">> \o h
               \o <<"\n", "Odds", ":", " ">> \o z
      [] kind = "compact_pt" ->
           <<"Aposta", ":", " ">> \o r \o <<" ", "-", " ">> \o h
               \o <<" ", "@", " ">> \o z
      [] kind = "compact_en" ->
           <<"Bet", ":", " ">> \o r \o <<" ", "-", " ">> \o h
               \o <<" ", "@", " ">> \o z
      [] kind = "paren" ->
           <<"Corrida", " ">> \o r \o <<":", " ">> \o h \o <<" ", "(">> \o z
               \o <<")">>
      [] kind = "sentence_en" ->
           <<"Bet", " ", "on", " ">> \o h \o <<" ", "in", " ", "Race", " ">> \o r
               \o <<" ", "@", " ">> \o z
      [] kind = "inline_en" ->
           <<"Race", " ">> \o r \o <<" ", "Horse", " ">> \o h
               \o <<" ", "Odds", " ">> \o z

\* "\nStake: 20\n<label>: <type>"
StakeType(label, type) ==
    <<"\n", "Stake", ":", " ", "20", "\n", label, ":", " ", type>>

\* Scenario C
ChatLine == <<"just", " ", "chatting", " ", "about", " ", "the", " ", "weather">>

\* The messages of a race of R, a horse of H and odds of Z: each layout, with
\* nothing after it, with a stake and a type after it, or as the test script
\* writes its messages, in a triple-quoted string on an indented line
TextsOf(R, H, Z) ==
    UNION {{b, <<"\n", " ">> \o b \o <<"\n", " ">>}
             \cup {b \o StakeType(l, t) : l \in {"Type", "Tipo"},
                                          t \in {"win", "place"}} :
           b \in {Layout(kind, r, h, z) :
                    kind \in {"labeled_pt", "labeled_en", "compact_pt",
                              "compact_en", "paren", "sentence_en",
                              "inline_en"},
                    r \in R, h \in H, z \in Z}}

\* The odds are a positive number, zero or a negative number.  One more
\* message is a sentence that two of the patterns match.
MessageTexts ==
    {ChatLine,
     <<"Bet", " ", "on", " ", "Storm", " ", "in", " ", "Race", " ", "Derby",
       " ", "Horse", " ", "B", " ", "Odds", " ", "2.5">>}
        \cup TextsOf(RaceNames, HorseNames,
                     {<<"2.5">>, <<"0">>, <<"-", "2.5">>})

\* test_message_parsing, line 55: is_bet_message(message) on one of the texts
IsBetMessageCall ==
    /\ message_text = NoText
    /\ \E s \in MessageTexts :
         /\ message_text' = s
         /\ is_bet' = IsBetMessage(s)
    /\ UNCHANGED <<tgVars, loopVars, stopVars, store, exec_queue, workerVars,
                   ppVars, histVars, orphans, content, queuedLog, handlerVars,
                   parsed, roundtrip, appVars>>

\* test_message_parsing, line 59: MessageParser.parse_message(message),
\* whatever is_bet_message returned
ParseMessageCall ==
    /\ message_text # NoText
    /\ parsed.tier = "unparsed"
    /\ parsed' = ParseMessage(message_text)
    /\ UNCHANGED <<tgVars, loopVars, stopVars, store, exec_queue, workerVars,
                   ppVars, histVars, orphans, content, queuedLog, handlerVars,
                   message_text, is_bet, roundtrip, appVars>>

\* ---- database/schemas.py: Bet.to_dict / Bet.from_dict ----
\* A value that is None, a datetime, a dict or a str: the type and what it
\* holds (the moment, or the content of the dict with 0 for the empty dict).
\* isoformat() and json.dumps() give the str of the same content,
\* fromisoformat() and json.loads() give the datetime and the dict back.
PyNone == [type |-> "none", v |-> 0]

\* Bet objects: stake, created_at, updated_at, result and id set or unset
Bets ==
    [race : {"Derby"}, horse_name : {"Storm"}, odds : {25},
     stake : {NoStake, 200}, bet_type : {"win", "place"},
     raw_message : {""}, status : {"pending"},
     created_at : {PyNone} \cup [type : {"datetime"}, v : 1..MaxStamp],
     updated_at : {PyNone} \cup [type : {"datetime"}, v : 1..MaxStamp],
     result : {PyNone} \cup [type : {"dict"}, v : {0, 1}],
     id : {NoId, 1}]

\* BetData objects
BetDatas ==
    [race : {"Derby"}, horse_name : {"Storm"}, odds : {25},
     stake : {NoStake, 200}, bet_type : {"win", "place"},
     raw_message : {""}, status : {"pending"},
     created_at : {PyNone} \cup [type : {"datetime"}, v : 1..MaxStamp]]

\* Bet.to_dict: asdict(self), created_at and updated_at as ISO strings when
\* set, result as a JSON string when it is not None or empty, and no "id"
\* key when id is None
BetToDict(b) ==
    LET data == [b EXCEPT
                   !.created_at = IF @.type # "none"
                                  THEN [type |-> "str", v |-> @.v] ELSE @,
                   !.updated_at = IF @.type # "none"
                                  THEN [type |-> "str", v |-> @.v] ELSE @,
                   !.result = IF @.type # "none" /\ @.v # 0
                              THEN [type |-> "str", v |-> @.v] ELSE @] IN
    IF b.id = NoId THEN [k \in DOMAIN data \ {"id"} |-> data[k]] ELSE data

\* BetData.to_dict: the eight keys, created_at as an ISO string or None
BetDataToDict(b) ==
    [race |-> b.race, horse_name |-> b.horse_name, odds |-> b.odds,
     stake |-> b.stake, bet_type |-> b.bet_type,
     raw_message |-> b.raw_message, status |-> b.status,
     created_at |-> IF b.created_at.type # "none"
                    THEN [type |-> "str", v |-> b.created_at.v] ELSE PyNone]

BetFromDictRequiredOnly(d) ==
    [race |-> d.race, horse_name |-> d.horse_name, odds |-> d.odds,
     stake |-> NoStake, bet_type |-> "win", raw_message |-> "",
     status |-> "pending", created_at |-> PyNone, updated_at |-> PyNone,
     result |-> PyNone, id |-> NoId]

\* Bet.from_dict: a copy of the dict with created_at and updated_at parsed
\* when they are non-empty strings and result loaded when it is a non-empty
\* string, then cls(**bet_data): a key the dict lacks takes the default of
\* the dataclass field
BetFromDict(d) ==
    LET parse(x, type) == IF x.type = "str" THEN [type |-> type, v |-> x.v]
                          ELSE x IN
    [race |-> d.race, horse_name |-> d.horse_name, odds |-> d.odds,
     stake |-> Get(d, "stake", NoStake),
     bet_type |-> Get(d, "bet_type", "win"),
     raw_message |-> Get(d, "raw_message", ""),
     status |-> Get(d, "status", "pending"),
     created_at |-> parse(Get(d, "created_at", PyNone), "datetime"),
     updated_at |-> parse(Get(d, "updated_at", PyNone), "datetime"),
     result |-> parse(Get(d, "result", PyNone), "dict"),
     id |-> Get(d, "id", NoId)]

\* to_dict() of a Bet or a BetData
ToDictCall ==
    /\ roundtrip.stage = "none"
    /\ \/ \E b \in Bets :
            roundtrip' = [stage |-> "dict", of |-> "Bet", bet |-> b,
                          data |-> BetToDict(b)]
       \/ \E b \in BetDatas :
            roundtrip' = [stage |-> "dict", of |-> "BetData", bet |-> b,
                          data |-> BetDataToDict(b)]
    /\ UNCHANGED <<tgVars, loopVars, stopVars, store, exec_queue, workerVars,
                   ppVars, histVars, orphans, content, queuedLog, handlerVars,
                   message_text, is_bet, parsed, appVars>>

\* Bet.from_dict() of that dict
FromDictCall ==
    /\ roundtrip.stage = "dict"
    /\ roundtrip' = [stage |-> "restored", of |-> roundtrip.of,
                     bet |-> roundtrip.bet, data |-> roundtrip.data,
                     restored |-> BetFromDict(roundtrip.data)]
    /\ UNCHANGED <<tgVars, loopVars, stopVars, store, exec_queue, workerVars,
                   ppVars, histVars, orphans, content, queuedLog, handlerVars,
                   message_text, is_bet, parsed, appVars>>

\* ---- Application.stop ----
\* Called from another thread than the loop's.  TelegramIntegration.stop is
\* the same without the browser manager.

\* "self.running = False" and run_coroutine_threadsafe(telegram_manager.stop(),
\* event_loop), on an application whose start_async has returned: the
\* coroutine is handed to the loop; the future is dropped
AppStop ==
    /\ apc = "idle"
    /\ startResult = "true"
    /\ ppc = "done"
    /\ apc' = "scheduled"
    /\ UNCHANGED <<tgVars, loopVars, stopVars, store, exec_queue, workerVars,
                   ppVars, histVars, orphans, content, queuedLog, handlerVars,
                   parserVars, loop_running>>

\* The loop starts the stop() coroutine it was handed
AppStopCoroutine ==
    /\ apc # "idle"
    /\ stops = 0
    /\ StopBegin

\* self.browser_manager.stop() on a browser manager that was started
AppBrowserStop ==
    /\ apc = "scheduled"
    /\ BrowserStopBegin

\* event_loop.call_soon_threadsafe(event_loop.stop), once
\* browser_manager.stop() has returned (at once when it was never started)
AppStopLoop ==
    /\ apc = "scheduled"
    /\ \/ bpc = "stopped"
       \/ bpc = "idle" /\ ~wrunning
    /\ apc' = "stop_requested"
    /\ UNCHANGED <<tgVars, loopVars, stopVars, store, exec_queue, workerVars,
                   ppVars, histVars, orphans, content, queuedLog, handlerVars,
                   parserVars, loop_running>>

\* The loop runs the stop callback between two steps of its tasks:
\* run_forever returns and no task is resumed any more
EventLoopStop ==
    /\ apc = "stop_requested"
    /\ EventLoopFree
    /\ loop_running' = FALSE
    /\ UNCHANGED <<tgVars, loopVars, stopVars, store, exec_queue, workerVars,
                   ppVars, histVars, orphans, content, queuedLog, handlerVars,
                   parserVars, apc>>

\* ---- specifications ----

\* The application: the manager as Application.start_telegram sets it up
\* (process_bet is the one callback), the pending bets of earlier runs, and
\* the browser worker thread.
Next ==
    \/ StartTelegram
    \/ MonitorStart
    \/ MessageHandler
    \/ LoopBegin
    \/ LoopAwaitGet
    \/ LoopGet
    \/ LoopInvoke
    \/ LoopTaskDone
    \/ StopBegin
    \/ StopCancel
    \/ StopReturn
    \/ PendingBegin
    \/ PendingEnqueue
    \/ PendingUpdate
    \/ PendingEnd
    \/ BrowserStart
    \/ WorkerCheck
    \/ WorkerTimeout
    \/ WorkerTake
    \/ WorkerPlace
    \/ BrowserStopBegin
    \/ BrowserStopEnd

Spec == Init /\ [][Next]_vars

\* The TelegramManager on its own, with any callbacks registered before or
\* after start() (process_bet among them or not); the browser manager is not
\* started.
NextManager ==
    \/ Start
    \/ MonitorStart
    \/ MessageHandler
    \/ Register
    \/ LoopBegin
    \/ LoopAwaitGet
    \/ LoopGet
    \/ LoopInvoke
    \/ LoopResume
    \/ LoopTaskDone
    \/ StopBegin
    \/ StopCancel
    \/ StopReturn

SpecManager == Init /\ [][NextManager]_vars

\* The TelegramManager with exceptions that escape the loop body outside the
\* per-callback isolation
NextUnexpected ==
    \/ Start
    \/ MonitorStart
    \/ MessageHandler
    \/ Register
    \/ LoopBegin
    \/ LoopAwaitGet
    \/ LoopGet
    \/ LoopInvoke
    \/ LoopResume
    \/ LoopUnexpected
    \/ LoopTaskDone
    \/ StopBegin
    \/ StopCancel
    \/ StopReturn

SpecUnexpected == Init /\ [][NextUnexpected]_vars

\* The manager as the application sets it up, fed with message texts
NextContent ==
    \/ StartTelegram
    \/ MonitorStart
    \/ MessageHandlerText
    \/ LoopBegin
    \/ LoopAwaitGet
    \/ LoopGet
    \/ LoopInvoke
    \/ LoopTaskDone
    \/ StopBegin
    \/ StopCancel
    \/ StopReturn

SpecContent == Init /\ [][NextContent]_vars

\* The manager as the application sets it up, with other subscribers'
\* handlers on the monitor
NextHandlers ==
    \/ AddForeignHandler
    \/ StartTelegram
    \/ MonitorStart
    \/ MessageHandlerForeign
    \/ LoopBegin
    \/ LoopAwaitGet
    \/ LoopGet
    \/ LoopInvoke
    \/ LoopTaskDone
    \/ StopBegin
    \/ StopCancel
    \/ StopReturn

SpecHandlers == Init /\ [][NextHandlers]_vars

\* The classifier and the parser on one message, as the test script calls
\* them: nothing else of the program runs
InitParser ==
    /\ Init
    /\ credentials
    /\ store = <<>>

NextParser ==
    \/ IsBetMessageCall
    \/ ParseMessageCall

SpecParser == InitParser /\ [][NextParser]_vars

\* The conversions of the record objects on their own
NextSchemas ==
    \/ ToDictCall
    \/ FromDictCall

SpecSchemas == InitParser /\ [][NextSchemas]_vars

\* The application started and then stopped once: the manager with
\* process_bet, the pending bets, the browser worker, Application.stop
NextApp ==
    \/ StartTelegram
    \/ MonitorStart
    \/ MessageHandler
    \/ LoopBegin
    \/ LoopAwaitGet
    \/ LoopGet
    \/ LoopInvoke
    \/ LoopTaskDone
    \/ PendingBegin
    \/ PendingEnqueue
    \/ PendingUpdate
    \/ PendingEnd
    \/ BrowserStart
    \/ WorkerCheck
    \/ WorkerTimeout
    \/ WorkerTake
    \/ WorkerPlace
    \/ AppStop
    \/ AppStopCoroutine
    \/ StopCancel
    \/ StopReturn
    \/ AppBrowserStop
    \/ BrowserStopEnd
    \/ AppStopLoop
    \/ EventLoopStop

SpecApp == Init /\ [][NextApp]_vars

\* The TelegramManager with one callback, of either kind, and start() and
\* stop() called in any order, any number of times within the bounds
NextRestart ==
    \/ Start
    \/ StartAgain
    \/ MonitorStart
    \/ MessageHandler
    \/ RegisterFirst
    \/ LoopBegin
    \/ LoopAwaitGet
    \/ LoopGet
    \/ LoopInvoke
    \/ LoopResume
    \/ LoopTaskDone
    \/ OrphanBegin
    \/ OrphanAwaitGet
    \/ OrphanGet
    \/ OrphanInvoke
    \/ OrphanResume
    \/ OrphanTaskDone
    \/ StopBegin
    \/ StopCancel
    \/ StopReturn

SpecRestart == Init /\ [][NextRestart]_vars

\* ---- observations on the history ----

\* Position of message m in the order of the puts
PutPos(m) == CHOOSE i \in DOMAIN puts : puts[i] = m

\* The callback positions invoked for message m, in invocation order
RECURSIVE CallsFor(_, _)
CallsFor(cs, m) ==
    IF cs = <<>> THEN <<>>
    ELSE IF Head(cs).msg = m
         THEN <<Head(cs).cb>> \o CallsFor(Tail(cs), m)
         ELSE CallsFor(Tail(cs), m)

IsConsumed(m) == \E k \in DOMAIN consumed : consumed[k].msg = m

\* m was marked consumed after callbacks 1..n, n the length of the list then,
\* had each been invoked once, in that order
FullyDispatched(m) ==
    \E k \in DOMAIN consumed :
        /\ consumed[k].msg = m
        /\ CallsFor(calls, m) = [i \in 1..consumed[k].ncb |-> i]

InIntakeQueue(m) == \E i \in DOMAIN bet_queue : bet_queue[i].msg = m

\* ---- C1 ----
\* C1: callbacks are invoked in the order the payloads were put on the
\* intake queue and, for one payload, in registration order, one at a time:
\* a callback that is suspended is the last one that was invoked.
C1_DispatchOrder ==
    /\ \A i, j \in DOMAIN calls :
         i < j => \/ PutPos(calls[i].msg) < PutPos(calls[j].msg)
                  \/ /\ calls[i].msg = calls[j].msg
                     /\ calls[i].cb < calls[j].cb
    /\ pc = "suspended" => calls[Len(calls)] = [msg |-> cur, cb |-> idx]

\* Two payloads were dispatched, one of them to two callbacks
C1_Witness ==
    /\ \E i, j \in DOMAIN calls : calls[i].msg # calls[j].msg
    /\ \E i \in DOMAIN calls : calls[i].cb = 2

\* ---- C2 ----
\* C2: a callback that raised for a bet is not invoked again for it, the bet
\* is not back on the queue, once the loop is done with the bet every
\* callback of the list was invoked for it exactly once, and the loop has
\* not ended unless stop() cancelled it.
C2_RaiseIsolated ==
    \A k \in DOMAIN raised :
        LET m == raised[k].msg IN
        /\ ~InIntakeQueue(m)
        /\ Cardinality({i \in DOMAIN calls : calls[i] = raised[k]}) = 1
        /\ cur # m => FullyDispatched(m)
        /\ pc = "cancelled" => stops > 0

\* The first of two callbacks raised for a bet, the bet was consumed and the
\* loop took the next bet
C2_Witness ==
    \E k \in DOMAIN raised :
        /\ raised[k].cb = 1
        /\ \E c \in DOMAIN consumed :
              consumed[c].msg = raised[k].msg /\ consumed[c].ncb = 2
        /\ Len(dequeued) >= 2

\* ---- C3 ----
\* C3: when the loop has exited on cancellation, every bet it took from the
\* queue has had all callbacks run and is marked consumed.
C3_CancelKeepsInFlight ==
    pc = "cancelled" => \A i \in DOMAIN dequeued : FullyDispatched(dequeued[i])

\* ---- C10 ----
\* C10: start() returns success only with all credentials present, the
\* connection established and the processing loop running.
C10_StartFailsFast ==
    [][(startResult = "none" /\ startResult' = "true")
          => (credentials' /\ connected' /\ is_running' /\ pc' # "none")]_vars

\* ---- observations on the store and the hand-offs ----

\* Hand-offs of message m to the execution queue made by process_bet
HandOffs(m) ==
    Cardinality({i \in DOMAIN handed :
                    handed[i].msg = m /\ handed[i].by = "process_bet"})

SaveCalls(m) == Cardinality({i \in DOMAIN saveLog : saveLog[i].msg = m})

Records(m) == Cardinality({i \in DOMAIN store : store[i].msg = m})

\* process_bet ran for m and its save_bet returned a saved payload
ProcessBetSaved(m) ==
    \E i \in DOMAIN saveLog :
        /\ saveLog[i].msg = m
        /\ saveLog[i].by = "process_bet"
        /\ saveLog[i].id # NoId

Rank(status) ==
    CASE status = "pending" -> 0
      [] status \in {"queued", "processing"} -> 1
      [] status \in {"completed", "failed"} -> 2

\* ---- C4 ----
\* C4 as stated: every extracted message the dispatcher is done with was
\* handed to the execution queue exactly once.
C4_ExactlyOneHandOff ==
    \A m \in Msgs : IsConsumed(m) => HandOffs(m) = 1

\* C4 as amended: at most one hand-off per message; once the dispatcher is
\* done with it, exactly one when the save_bet of process_bet returned a
\* saved payload and none when that save failed.
C4_AtMostOneHandOff ==
    \A m \in Msgs :
        /\ HandOffs(m) <= 1
        /\ IsConsumed(m) => (HandOffs(m) = 1 <=> ProcessBetSaved(m))

\* Two messages went through process_bet: one was handed off, the save of
\* the other failed
C4_Witness ==
    \E m, n \in Msgs :
        /\ IsConsumed(m) /\ HandOffs(m) = 1
        /\ IsConsumed(n) /\ HandOffs(n) = 0

\* ---- C5 ----
\* C5: one save_bet call and one stored record per extracted message, and
\* none before the message has been taken from the intake queue.
C5_SavedOnceAfterDequeue ==
    \A m \in Msgs :
        /\ SaveCalls(m) <= 1
        /\ Records(m) <= 1
        /\ SaveCalls(m) >= 1 => \E i \in DOMAIN dequeued : dequeued[i] = m

\* ---- C7 ----
\* C7: no step moves a stored bet to an earlier stage of
\* pending -> queued/processing -> completed|failed, or out of completed or
\* failed.
C7_StatusForward ==
    [][\A i \in DOMAIN store :
          /\ Rank(store'[i].status) >= Rank(store[i].status)
          /\ Rank(store[i].status) = 2 => store'[i].status = store[i].status]_vars

\* process_pending_bets moved a bet from pending to queued and the worker
\* has placed that bet (both have made their update_bet_status calls)
C7_Witness ==
    \E i \in DOMAIN store :
        /\ store[i].status = "queued"
        /\ \E e \in DOMAIN executed : executed[e].id = store[i].id

\* ---- C8 ----
\* C8: while the worker places a bet with an id its stored status is
\* processing, and after place_bet returned it is completed on success and
\* failed otherwise.
C8_WorkerSetsStatus ==
    /\ (wpc = "placing" /\ wcur.id # NoId) => StatusOf(wcur.id) = "processing"
    /\ \A e \in DOMAIN executed :
          executed[e].id # NoId =>
              StatusOf(executed[e].id) =
                  IF executed[e].success THEN "completed" ELSE "failed"

\* ---- C9 ----
\* C9: no bet that process_bet handed to the execution queue is still
\* stored as pending.
C9_HandedNotPending ==
    \A i \in DOMAIN handed :
        handed[i].by = "process_bet" => StatusOf(handed[i].id) # "pending"

\* ---- C6 ----
\* The event loop runs every ready task, and every callback that suspends is
\* resumed and ends: the processing loop takes its next step whenever it has
\* one.  Nothing obliges messages to arrive or stop() to be called.
LoopStep ==
    \/ LoopBegin
    \/ LoopAwaitGet
    \/ LoopGet
    \/ LoopInvoke
    \/ LoopResume
    \/ LoopTaskDone

FairManager == SpecManager /\ WF_vars(LoopStep)

ManagerRunning == startResult = "true" /\ stops = 0

\* C6 as stated: a payload on the intake queue of a running manager is
\* eventually consumed after every registered callback was invoked for it.
C6_EventuallyDelivered ==
    \A m \in Msgs :
        (InIntakeQueue(m) /\ ManagerRunning) ~> FullyDispatched(m)

\* C6 as amended: ... or stop() is called first.
C6_DeliveredUnlessStopped ==
    \A m \in Msgs :
        (InIntakeQueue(m) /\ ManagerRunning) ~> (FullyDispatched(m) \/ stops > 0)

\* A payload was delivered to two callbacks and consumed with no stop()
C6_Witness ==
    \E m \in Msgs :
        /\ FullyDispatched(m)
        /\ Len(CallsFor(calls, m)) = 2
        /\ stops = 0

C12_StopIsNoOp ==
    [][(/\ stops' = stops + 1
        /\ \/ startResult = "none"
           \/ spc = "returned" /\ pc = "cancelled")
          => /\ spc' # "disconnecting"
             /\ UNCHANGED <<pc, bet_queue, callbacks, is_running>>]_vars

\* ---- C13 ----
\* C13: a registration, before or after start(), puts the callback behind
\* the callbacks already in the list, and every bet the loop has finished
\* had each callback of the list (those registered before the bet was
\* taken or while it was dispatched) invoked once, in list order.
C13_RegisterAppends ==
    [][/\ Len(callbacks') > Len(callbacks)
            => SubSeq(callbacks', 1, Len(callbacks)) = callbacks
       /\ \A k \in DOMAIN consumed' :
            CallsFor(calls', consumed'[k].msg) = [i \in 1..consumed'[k].ncb |-> i]]_vars

\* A callback registered after the first bet was consumed (so after
\* start()) was invoked for the second bet, after the callback registered
\* earlier
C13_Witness ==
    /\ Len(consumed) = 2
    /\ consumed[1].ncb = 1
    /\ consumed[2].ncb = 2
    /\ CallsFor(calls, consumed[2].msg) = <<1, 2>>

\* ---- C14 ----
\* C14: the only step that ends the processing loop is the cancel of a
\* stop(); an exception that escapes the loop body outside the per-callback
\* isolation leaves the loop at the top of "while True".
C14_OnlyCancelEnds ==
    [][(pc # "cancelled" /\ pc' = "cancelled")
          => (stops' = stops + 1 \/ spc = "disconnecting")]_vars

\* With no stop() called, the loop gave up a bet on such an exception (the
\* bet is neither held nor marked consumed) and took a later bet
C14_Witness ==
    /\ stops = 0
    /\ \E i \in DOMAIN dequeued :
          /\ i < Len(dequeued)
          /\ ~IsConsumed(dequeued[i])
          /\ cur # dequeued[i]

\* ---- C15 ----
ConsumedMarks(m) == Cardinality({k \in DOMAIN consumed : consumed[k].msg = m})

WasDequeued(m) == \E i \in DOMAIN dequeued : dequeued[i] = m

\* C15: a bet is marked consumed at most once, only when it was taken from
\* the queue and every callback of the list has been invoked for it, and
\* exactly once when the loop has finished with it, whether or not a
\* callback raised; the marks never outnumber the bets taken.
C15_ConsumedOnce ==
    /\ \A m \in Msgs :
         /\ ConsumedMarks(m) <= 1
         /\ (WasDequeued(m) /\ cur # m) => ConsumedMarks(m) = 1
         /\ \A k \in DOMAIN consumed :
              consumed[k].msg = m =>
                  /\ WasDequeued(m)
                  /\ cur # m
                  /\ Len(CallsFor(calls, m)) = consumed[k].ncb
    /\ Len(consumed) <= Len(dequeued)

\* Two bets were taken and marked consumed; a callback raised for the first
\* one and none for the second
C15_Witness ==
    /\ Len(consumed) = 2
    /\ consumed[1].ncb >= 1
    /\ \E k \in DOMAIN raised : raised[k].msg = consumed[1].msg
    /\ \A k \in DOMAIN raised : raised[k].msg # consumed[2].msg

\* ---- C16 ----
\* The bets held by a task that is dispatching them
InDispatch ==
    (IF pc \in {"dispatch", "suspended"} THEN 1 ELSE 0)
    + Cardinality({o \in DOMAIN orphans : orphans[o].pc \in {"dispatch", "suspended"}})

\* C16: whatever start() and stop() calls were made, at most one processing
\* loop holds a bet it took from the queue: no two bets are being dispatched
\* at once.
C16_SingleLoop == InDispatch <= 1

\* ---- C17 ----
\* The messages is_bet_message was called for.  _message_handler goes from
\* the text straight to _extract_bet_data, _handle_new_bet puts the dict,
\* and no function of the pipeline calls is_bet_message.
ClassifierCalls == {}

\* C17: every payload put on the intake queue comes from a message the
\* classifier was consulted for.
C17_ClassifierGates == \A i \in DOMAIN puts : puts[i] \in ClassifierCalls

\* ---- C18 ----
\* The Bet Record passed to the callback in invocation c
Delivered(c) == BetObj(content[c.msg])

\* C18: every Bet Record passed to a callback has a non-empty race, a
\* non-empty horse_name and odds greater than 0.
C18_RecordsComplete ==
    \A i \in DOMAIN calls :
        /\ Delivered(calls[i]).race # ""
        /\ Delivered(calls[i]).horse_name # ""
        /\ Delivered(calls[i]).odds > 0

\* ---- C19 ----
\* created_at of the record written by the save_bet call i
PersistedCreatedAt(i) ==
    IF saveLog[i].by = "monitor"
    THEN SaveCreatedAt(NoTime, i)
    ELSE SaveCreatedAt(BetObj(content[saveLog[i].msg]).created_at, i)

\* C19: the record delivered to a callback and every record persisted for
\* a message carry the created_at of the payload that was put on the queue.
C19_CreatedAtKept ==
    /\ \A i \in DOMAIN calls :
         Delivered(calls[i]).created_at = content[calls[i].msg].created_at
    /\ \A i \in DOMAIN saveLog :
         saveLog[i].id # NoId =>
             PersistedCreatedAt(i) = content[saveLog[i].msg].created_at

\* ---- C20 ----
\* C20: the ids the persistence layer assigned to one bet are all the same,
\* and the bet is handed on with that id.
C20_IdStable ==
    /\ \A i, j \in DOMAIN saveLog :
         (saveLog[i].msg = saveLog[j].msg /\ saveLog[i].id # NoId
            /\ saveLog[j].id # NoId) => saveLog[i].id = saveLog[j].id
    /\ \A h \in DOMAIN handed : \A i \in DOMAIN saveLog :
         (handed[h].msg = saveLog[i].msg /\ saveLog[i].by = "monitor"
            /\ saveLog[i].id # NoId) => handed[h].id = saveLog[i].id

\* ---- C21 ----
\* C21: every bet handed to the execution queue, by process_bet or by
\* process_pending_bets, has a stake.
C21_StakeSet == \A h \in DOMAIN handed : handed[h].stake # NoStake

\* ---- C22 ----
\* Successful saves of process_bet for message m
SavedByProcessBet(m) ==
    {i \in DOMAIN saveLog : /\ saveLog[i].msg = m
                            /\ saveLog[i].by = "process_bet"
                            /\ saveLog[i].id # NoId}

\* bet_queued actions logged for message m
QueuedActions(m) == {i \in DOMAIN queuedLog : queuedLog[i].msg = m}

C23_HandlersIsolated ==
    \A i \in DOMAIN notified : notified[i].called = notified[i].registered

\* ---- C24 ----
\* C24: parse_message never returns a record with an empty race or an empty
\* horse_name: the result is None or a record whose race and horse_name are
\* non-empty after stripping, whatever the tier.
C24_NamesNonEmpty ==
    parsed.ok => /\ StripTokens(parsed.race) # <<>>
                 /\ StripTokens(parsed.horse_name) # <<>>

\* ---- C25 ----
\* C25: a message whose odds are 0 or negative (the number 0, or a number
\* with "-" before it) is rejected: parse_message returns None for it, no
\* record has odds <= 0, and a negative value is not taken as its magnitude.
C25_OddsPositive ==
    /\ parsed.ok => parsed.odds > 0
    /\ (\E i \in DOMAIN message_text :
           \/ message_text[i] = "0"
           \/ /\ message_text[i] = "-"
              /\ i < Len(message_text)
              /\ message_text[i + 1] \in NumberTokens)
       => ~parsed.ok

\* ---- C26 ----
\* C26: whichever tier produces the record, a stake token sets the stake and
\* a type token sets the bet type; without the tokens the stake is None and
\* the bet type "win".
C26_SecondaryInEveryTier ==
    parsed.ok =>
        /\ \A l \in {"Type", "Tipo"}, t \in {"win", "place"} :
              (/\ Len(message_text) > 10
               /\ SubSeq(message_text, Len(message_text) - 9, Len(message_text))
                     = StakeType(l, t))
              => parsed.stake = FloatOf("20") /\ parsed.bet_type = <<t>>
        /\ ~HasWord(message_text, {"Stake"})
              => parsed.stake = NoStake /\ parsed.bet_type = <<"win">>

\* ---- C27 ----
\* C27: for "Race: R / Horse: H / Odds: Z / Stake: S / Type: T" on lines of
\* their own, R and H given and Z and S positive, parse_message returns the
\* record with race R, horse_name H, odds Z, stake S and bet_type T.
C27_ScenarioA ==
    \A r \in RaceNames \ {<<>>}, h \in HorseNames \ {<<>>}, t \in {"win", "place"} :
        (/\ message_text = Layout("labeled_en", r, h, <<"2.5">>) \o StakeType("Type", t)
         /\ parsed.tier # "unparsed")
        => /\ parsed.ok
           /\ parsed.race = r
           /\ parsed.horse_name = h
           /\ parsed.odds = FloatOf("2.5")
           /\ parsed.stake = FloatOf("20")
           /\ parsed.bet_type = <<t>>

\* ---- C28 ----
\* C28: for "Bet: R - H @ Z", R and H given and Z positive, with no stake or
\* type token, parse_message returns the record with race R, horse_name H,
\* odds Z, stake None and bet_type "win".
C28_ScenarioB ==
    \A r \in RaceNames \ {<<>>}, h \in HorseNames \ {<<>>} :
        (/\ message_text = Layout("compact_en", r, h, <<"2.5">>)
         /\ parsed.tier # "unparsed")
        => /\ parsed.ok
           /\ parsed.race = r
           /\ parsed.horse_name = h
           /\ parsed.odds = FloatOf("2.5")
           /\ parsed.stake = NoStake
           /\ parsed.bet_type = <<"win">>

\* ---- C29 ----
\* C29: for each of the three Portuguese layouts of the test script,
\* is_bet_message returns true and parse_message returns a record made by a
\* labeled pattern with race R, horse_name H and odds Z.
C29_TestLayouts ==
    \A r \in RaceNames \ {<<>>}, h \in HorseNames \ {<<>>},
       kind \in {"labeled_pt", "compact_pt", "paren"} :
        (/\ message_text = Layout(kind, r, h, <<"2.5">>)
         /\ parsed.tier # "unparsed")
        => /\ is_bet
           /\ parsed.ok
           /\ parsed.tier = "pattern"
           /\ parsed.race = r
           /\ parsed.horse_name = h
           /\ parsed.odds = FloatOf("2.5")

\* ---- C30 ----
\* C30: is_bet_message returns true only for a text that has an odds-shaped
\* token, more than 10 characters and at least one keyword; a text without
\* an odds token (the number has "-" before it, so that no number stands
\* right after "@", "Odds:" or "(") is rejected whatever its keywords, and
\* so is the chat line of Scenario C.
C30_OddsTokenRequired ==
    message_text # NoText =>
        /\ is_bet => /\ HasOdds(message_text)
                     /\ TextLen(message_text) > 10
                     /\ KeywordCount(message_text) >= 1
        /\ (\/ message_text = ChatLine
            \/ HasWord(message_text, {"-"}) /\ ~HasWord(message_text, {"@", "0"}))
           => ~is_bet

\* A message with three keywords and no odds token was rejected
C30_Witness ==
    /\ HasWord(message_text, {"-"})
    /\ ~HasWord(message_text, {"@", "0"})
    /\ KeywordCount(message_text) >= 3
    /\ ~is_bet

\* ---- C31 ----
\* C31 as stated: is_bet_message accepts a text exactly when it has an odds
\* token, more than 10 characters, and two keywords or one keyword with a
\* label; a text with exactly one keyword and no label is rejected.
C31_TwoOrLabel ==
    message_text # NoText =>
        (is_bet <=> /\ HasOdds(message_text)
                    /\ TextLen(message_text) > 10
                    /\ \/ KeywordCount(message_text) >= 2
                       \/ /\ KeywordCount(message_text) >= 1
                          /\ SpecificPatterns(message_text))

\* C31: is_bet_message accepts a text exactly when it has an odds token,
\* more than 10 characters, and two keywords or one keyword with a label or
\* a line break; a text with exactly one keyword, no label and no line break
\* is rejected.
C31_ExactCriteria ==
    message_text # NoText =>
        (is_bet <=> /\ HasOdds(message_text)
                    /\ TextLen(message_text) > 10
                    /\ \/ KeywordCount(message_text) >= 2
                       \/ /\ KeywordCount(message_text) >= 1
                          /\ \/ SpecificPatterns(message_text)
                             \/ HasWord(message_text, {"\n"}))

\* A text with one keyword, no label and a line break was accepted
C31_Witness ==
    /\ is_bet
    /\ KeywordCount(message_text) = 1
    /\ ~SpecificPatterns(message_text)
    /\ HasWord(message_text, {"\n"})

\* ---- C32 ----
\* C32: Bet.from_dict(b.to_dict()) has the race, horse_name, odds, stake
\* and bet_type of b, for every combination of set and unset stake, id,
\* created_at, updated_at and result, and so has the Bet made by
\* Bet.from_dict from the dict of BetData.to_dict.
C32_RoundTrip ==
    roundtrip.stage = "restored" =>
        /\ roundtrip.restored.race = roundtrip.bet.race
        /\ roundtrip.restored.horse_name = roundtrip.bet.horse_name
        /\ roundtrip.restored.odds = roundtrip.bet.odds
        /\ roundtrip.restored.stake = roundtrip.bet.stake
        /\ roundtrip.restored.bet_type = roundtrip.bet.bet_type
        /\ roundtrip.of = "Bet" => roundtrip.restored = roundtrip.bet

\* A Bet with a stake, no id, both moments and a result went through
\* to_dict, which dropped the id key and wrote the three as strings, and
\* came back from from_dict
C32_Witness ==
    /\ roundtrip.stage = "restored"
    /\ roundtrip.of = "Bet"
    /\ roundtrip.bet.stake # NoStake
    /\ roundtrip.bet.bet_type = "place"
    /\ roundtrip.bet.id = NoId
    /\ "id" \notin DOMAIN roundtrip.data
    /\ roundtrip.data.created_at.type = "str"
    /\ roundtrip.data.updated_at.type = "str"
    /\ roundtrip.data.result.type = "str"

\* ---- C33 ----
\* C33: parse_message returns the record of the first tier that succeeds,
\* the tiers being the five patterns in list order, then the keyword
\* fallback, then the windowed scan; a later tier counts only when every
\* earlier one failed, and every call ends with a record or None (no tier
\* raises towards the caller).
C33_FirstTierWins ==
    parsed.tier # "unparsed" =>
        LET matching == {p \in DOMAIN PATTERNS :
                            Search(message_text, PATTERNS[p]).ok}
            flexible == FlexibleTier(message_text)
            last == LastResortTier(message_text, 1) IN
        /\ parsed.tier \in {"pattern", "flexible", "last_resort", "none"}
        /\ parsed.ok <=> parsed.tier # "none"
        /\ matching # {} =>
              LET p == CHOOSE q \in matching : \A o \in matching : q <= o
                  m == Search(message_text, PATTERNS[p]) IN
              /\ parsed.tier = "pattern"
              /\ parsed.race = StripTokens(m.groups[IF p = 4 THEN 2 ELSE 1])
              /\ parsed.horse_name = StripTokens(m.groups[IF p = 4 THEN 1 ELSE 2])
              /\ parsed.odds = FloatOf(m.groups[3][1])
        /\ (matching = {} /\ flexible.ok) => parsed = flexible
        /\ (matching = {} /\ ~flexible.ok) => parsed = last

\* Two patterns match the message and the two later tiers succeed on it as
\* well, each with another record: the record returned is the one of the
\* earlier pattern
C33_Witness ==
    /\ Search(message_text, PATTERNS[4]).ok
    /\ Search(message_text, PATTERNS[5]).ok
    /\ FlexibleTier(message_text).ok
    /\ parsed.tier = "pattern"
    /\ parsed.horse_name = Search(message_text, PATTERNS[4]).groups[1]
    /\ parsed.horse_name # Search(message_text, PATTERNS[5]).groups[2]
    /\ parsed.race # FlexibleTier(message_text).race

\* ---- C34 ----
\* C34: a bet taken from the intake queue is marked consumed only after it
\* was delivered to at least one callback, also when it was taken while the
\* callback list was empty.
C34_ConsumedAfterDelivery ==
    \A k \in DOMAIN consumed :
        \E c \in DOMAIN calls : calls[c].msg = consumed[k].msg

\* ---- C35 ----
\* C35: whatever start() and stop() calls were made on the manager, its
\* _handle_new_bet is in the monitor's handler list at most once and a bet
\* the monitor detected is put on the intake queue at most once.
C35_HandlerRegisteredOnce ==
    /\ bet_handlers <= 1
    /\ \A m \in Msgs : Cardinality({i \in DOMAIN puts : puts[i] = m}) <= 1

\* ---- C36 ----
\* C36: once stop() has returned on a started manager (the processing task
\* it cancelled has ended), the message source is not connected, also when
\* stop() was called before the monitor task had created its client.
C36_StoppedStaysDisconnected ==
    (spc = "returned" /\ pc = "cancelled") => ~connected

\* ---- C37 ----
\* C37: process_pending_bets hands to the execution queue no bet that was
\* handed to it before: none of the records process_bet saved, and so
\* handed over, in an earlier run (the records that carry the stake
\* process_bet applied), and no record twice; no persisted bet is executed
\* more than once.
C37_NoSecondHandOff ==
    /\ \A h \in DOMAIN handed :
          handed[h].by = "process_pending_bets" => handed[h].stake = NoStake
    /\ \A h, g \in DOMAIN handed :
          (handed[h].id = handed[g].id /\ handed[h].id # NoId) => h = g
    /\ \A e, f \in DOMAIN executed :
          (executed[e].id = executed[f].id /\ executed[e].id # NoId) => e = f

\* ---- C38 ----
\* C38: every bet the worker thread takes from the execution queue is
\* passed to place_bet: none is taken and dropped, neither because the
\* browser handle is None when it is taken nor because its processing
\* raises.
C38_EveryTakenPlaced == lost = <<>>

\* ---- C39 ----
\* C39: once BrowserManager.stop() has returned (the handle is None), the
\* worker thread is not in the middle of a bet, whatever it was doing when
\* stop() was called: it has no take_screenshot or place_bet call on the
\* handle ahead of it.
C39_WorkerQuietAfterStop ==
    bpc = "stopped" => wpc # "placing"

\* ---- C40 ----

\* C40 (as stated): when the event loop has been stopped by Application.stop,
\* the stop() coroutine it scheduled has run to completion: it returned, the
\* source is disconnected and the processing task has ended.
C40_StopCompletesBeforeLoopStops ==
    ~loop_running =>
        /\ spc = "returned"
        /\ ~connected
        /\ pc \in {"none", "cancelled"}

====
